---- MODULE Spec2Model ----
(***************************************************************************)
(* A model of dns.c: the wire-format name codec, the packet codec, the     *)
(* resolver configuration (search-list iterator, loader, reference count)  *)
(* and the hints database.                                                 *)
(*                                                                         *)
(* Octets are integers in 0..255.  A C array is a sequence; the octet at   *)
(* C index i is the element i + 1.  A presentation-form name is a sequence *)
(* of character codes ('.' is 46, 'a' is 97, 'A' is 65).                   *)
(***************************************************************************)
EXTENDS Integers, Sequences, FiniteSets, TLC

VARIABLES
    P,      \* the packet under construction: data, end, size, dict
    log,    \* the records whose dns_p_push returned 0, in call order
    last,   \* the last packet call: its arguments, its result, the packet before it
    X,      \* a packet with arbitrary content, for the wire-format walkers
    xp,     \* the position of the dns_d_expand call running on X
    xs,     \* the last dns_d_skip call on X
    rc,     \* the resolver configuration and query name of the search iterator
    srch,   \* the search iterator: its state word and the candidates returned
    conf,   \* the resolver configuration under dns_resconf_loadfile, and its last load
    ref,    \* a reference-counted handle and the threads working on it
    hints   \* the hints database, the clock, one iterator and what it yielded

vars == <<P, log, last, X, xp, xs, rc, srch, conf, ref, hints>>
pvars == <<P, log, last>>
xvars == <<X, xp, xs>>
svars == <<rc, srch>>
cvars == <<conf>>
rvars == <<ref>>
hvars == <<hints>>

(***************************************************************************)
(* Octet and integer helpers.                                              *)
(***************************************************************************)
Min(a, b) == IF a < b THEN a ELSE b

\* 0x03 & (octet >> 6)
Top2(b) == (b \div 64) % 4

\* 0x3f & octet
Low6(b) == b % 64

\* conversion to unsigned short
U16(n) == n % 65536

\* subtraction of two size_t values: it wraps around instead of going negative
\* (the modulus stands for 2^64, which is beyond the model checker's integers)
SizeSub(a, b) == IF a >= b THEN a - b ELSE (a - b) + 2^30

\* the octet at C index i; the buffer behind the written octets reads as zero
Byte(data, i) == IF i < Len(data) THEN data[i + 1] ELSE 0

\* data with the octet at C index i set to v (the buffer grows as it is written)
RECURSIVE SetAt(_, _, _)
SetAt(data, i, v) ==
    IF i < Len(data) THEN [data EXCEPT ![i + 1] = v]
    ELSE IF i = Len(data) THEN Append(data, v)
    ELSE SetAt(Append(data, 0), i, v)

Take(s, n) == SubSeq(s, 1, Min(n, Len(s)))

\* tolower(3) in the C locale
ToLower(c) == IF c >= 65 /\ c <= 90 THEN c + 32 ELSE c

Lower(s) == [i \in 1..Len(s) |-> ToLower(s[i])]

\* the C string held by a buffer: the octets before the first NUL
RECURSIVE CStr(_)
CStr(s) == IF s = <<>> \/ Head(s) = 0 THEN <<>> ELSE <<Head(s)>> \o CStr(Tail(s))

\* 0 == strcasecmp(a, b)
StrCaseEq(a, b) == Lower(CStr(a)) = Lower(CStr(b))

(***************************************************************************)
(* Program constants.                                                      *)
(***************************************************************************)
DNS_D_MAXPTRS == 127

\* lengthof(P->dict)
DictLen == 16

\* offsetof(struct dns_packet, data): the dictionary and the two size_t fields
PacketDataOffset == 48

DNS_S_QD == 1
DNS_S_AN == 2
DNS_S_NS == 4
DNS_S_AR == 8

DNS_T_A == 1
DNS_T_NS == 2
DNS_T_CNAME == 5
DNS_T_MX == 15
DNS_T_TXT == 16
DNS_T_AAAA == 28

DNS_C_IN == 1

(***************************************************************************)
(* dns_l_expand: the label at src, following pointers.  len = 0 for the    *)
(* root label and for malformed input; wrote tells whether the caller's    *)
(* label buffer was written (it is left alone on malformed input).         *)
(***************************************************************************)
RECURSIVE LExpandFrom(_, _, _, _)
LExpandFrom(src, nptrs, data, end) ==
    LET invalid == [len |-> 0, nxt |-> U16(end), label |-> <<>>, wrote |-> FALSE] IN
    IF src >= end THEN invalid
    ELSE CASE Top2(Byte(data, src)) = 0 ->
                LET len == Low6(Byte(data, src))
                    s1 == U16(src + 1)
                IN  IF SizeSub(end, s1) < len THEN invalid
                    ELSE [len |-> len, nxt |-> U16(s1 + len),
                          label |-> [i \in 1..len |-> Byte(data, s1 + i - 1)],
                          wrote |-> TRUE]
           [] Top2(Byte(data, src)) = 3 ->
                IF nptrs + 1 > DNS_D_MAXPTRS THEN invalid
                ELSE IF SizeSub(end, src) < 2 THEN invalid
                ELSE LExpandFrom(Low6(Byte(data, src)) * 256 + Byte(data, src + 1),
                                 nptrs + 1, data, end)
           [] OTHER -> invalid

dns_l_expand(src, data, end) == LExpandFrom(src, 0, data, end)

(***************************************************************************)
(* dns_d_anchor on text that fits the destination buffer: the text         *)
(* produced; its length is the value returned.                             *)
(***************************************************************************)
dns_d_anchor(src) ==
    IF Len(src) = 0 THEN <<>>
    ELSE IF src[Len(src)] # 46 THEN Append(src, 46)
    ELSE src

(***************************************************************************)
(* dns_d_comp.  First the labels of the presentation-form name src are     *)
(* written to the destination, each behind its length octet; CompLabels    *)
(* is that loop with its closing statements.  dst holds the octets the     *)
(* unbounded loop writes; the caller keeps the first lim of them.          *)
(***************************************************************************)
\* the number of characters from C index x of src up to the next dot or the end
RunLen(src, x) ==
    LET stops == {k \in x..Len(src) : k = Len(src) \/ src[k + 1] = 46} IN
    (CHOOSE k \in stops : \A j \in stops : k <= j) - x

\* data with bytes written from C index i on (the buffer grows as it is written)
SetRun(data, i, bytes) ==
    [k \in 1..(IF Len(data) > i + Len(bytes) THEN Len(data) ELSE i + Len(bytes)) |->
        IF k > i /\ k <= i + Len(bytes) THEN bytes[k - i]
        ELSE IF k <= Len(data) THEN data[k] ELSE 0]

\* the characters of a label are copied run by run: the else branch of the
\* loop taken for every character up to the next dot
RECURSIVE CompLabels(_, _, _, _, _, _)
CompLabels(src, srcp, srcx, dst, dstp, dstx) ==
    IF srcx < Len(src)
    THEN IF src[srcx + 1] = 46
         THEN CompLabels(src, srcx + 1, srcx + 1,
                         SetAt(dst, dstp, Low6(srcx - srcp)), dstx, dstx + 1)
         ELSE CompLabels(src, srcp, srcx + RunLen(src, srcx),
                         SetRun(dst, dstx, SubSeq(src, srcx + 1, srcx + RunLen(src, srcx))),
                         dstp, dstx + RunLen(src, srcx))
    ELSE LET d1 == IF srcx > srcp THEN SetAt(dst, dstp, Low6(srcx - srcp)) ELSE dst
             p1 == IF srcx > srcp THEN dstx ELSE dstp
         IN  [b |-> SetAt(d1, p1, 0), p |-> p1 + 1]

(***************************************************************************)
(* The compression scan of dns_d_comp.  a walks the new name in dst (read  *)
(* up to lim), b walks the names of the dictionary in the packet.  Both    *)
(* are the structs of the code: p, x, y, len and the label buffer.  The    *)
(* comparison loop reads the next labels into a and b themselves.          *)
(***************************************************************************)
\* a (or b) after "len = dns_l_expand(label, sizeof label, y, &y, ...)"
ReadNext(s, data, end) ==
    LET e == dns_l_expand(s.y, data, end) IN
    [s EXCEPT !.len = e.len, !.y = e.nxt,
              !.label = IF e.wrote THEN e.label ELSE s.label]

\* while (a.len && b.len && 0 == strcasecmp(a.label, b.label)) { ... }
RECURSIVE CompMatch(_, _, _, _, _, _)
CompMatch(a, b, dst, lim, data, end) ==
    IF a.len # 0 /\ b.len # 0 /\ StrCaseEq(a.label, b.label)
    THEN CompMatch(ReadNext(a, dst, lim), ReadNext(b, data, end), dst, lim, data, end)
    ELSE [a |-> a, b |-> b]

\* while ((b.len = dns_l_expand(..., b.p, &b.x, P->data, P->end))) { ... b.p = b.x; }
RECURSIVE CompSuffixes(_, _, _, _, _, _)
CompSuffixes(a, bp, dst, lim, data, end) ==
    LET e == dns_l_expand(bp, data, end) IN
    IF e.len = 0 THEN [found |-> FALSE, a |-> a, at |-> 0]
    ELSE LET b == [p |-> bp, x |-> e.nxt, y |-> e.nxt, len |-> e.len, label |-> e.label]
             m == CompMatch([a EXCEPT !.y = a.x], b, dst, lim, data, end)
         IN  IF m.a.len = 0 /\ m.b.len = 0 /\ bp <= 16383
             THEN [found |-> TRUE, a |-> m.a, at |-> bp]
             ELSE CompSuffixes(m.a, e.nxt, dst, lim, data, end)

\* for (i = 0; i < lengthof(P->dict) && P->dict[i]; i++) { ... }
RECURSIVE CompDict(_, _, _, _, _, _, _)
CompDict(a, i, dict, dst, lim, data, end) ==
    IF i > DictLen \/ dict[i] = 0 THEN [found |-> FALSE, a |-> a, at |-> 0]
    ELSE LET r == CompSuffixes(a, dict[i], dst, lim, data, end) IN
         IF r.found THEN r ELSE CompDict(r.a, i + 1, dict, dst, lim, data, end)

\* while ((a.len = dns_l_expand(..., a.p, &a.x, dst.b, lim))) { ... a.p = a.x; }
\* the result is the number of octets of the name and the octets themselves
RECURSIVE CompScan(_, _, _, _, _, _, _)
CompScan(ap, dst, dstp, lim, dict, data, end) ==
    LET e == dns_l_expand(ap, dst, lim) IN
    IF e.len = 0 THEN [len |-> dstp, b |-> Take(dst, dstp)]
    ELSE LET a == [p |-> ap, x |-> e.nxt, y |-> e.nxt, len |-> e.len, label |-> e.label]
             r == CompDict(a, 1, dict, dst, lim, data, end)
         IN  IF r.found
             THEN [len |-> ap + 2,
                   b |-> Take(dst, ap) \o <<192 + Low6(r.at \div 256), r.at % 256>>]
             ELSE CompScan(e.nxt, dst, dstp, lim, dict, data, end)

\* dns_d_comp(&P->data[P->end], lim, src, len, P, &error): the length returned
\* and the octets left in the destination (at most lim of them)
dns_d_comp(lim, src, Pk) ==
    LET w == CompLabels(src, 0, 0, <<>>, 0, 1) IN
    IF w.p < lim
    THEN CompScan(0, w.b, w.p, lim, Pk.dict, Pk.data, Pk.end)
    ELSE [len |-> w.p, b |-> Take(w.b, lim)]

\* the same name written without the compression scan
UncompressedLen(src) == CompLabels(src, 0, 0, <<>>, 0, 1).p

(***************************************************************************)
(* dns_p_dictadd and dns_d_push.  A packet is the record                   *)
(* [data, end, size, dict]; data holds the octets below end.               *)
(***************************************************************************)
RECURSIVE DictPut(_, _, _)
DictPut(dict, i, dn) ==
    IF i > DictLen THEN dict
    ELSE IF dict[i] = 0 THEN [dict EXCEPT ![i] = dn]
    ELSE DictPut(dict, i + 1, dn)

dns_p_dictadd(Pk, dn) == [Pk EXCEPT !.dict = DictPut(Pk.dict, 1, U16(dn))]

\* the packet after the call and the value returned
\* dns_d_push behind its dns_d_comp call, which returned c
DPushed(Pk, lim, c) ==
    IF c.len = 0 \/ c.len > lim THEN [P |-> Pk, error |-> -1]
    ELSE [P |-> [dns_p_dictadd(Pk, Pk.end) EXCEPT
                     !.data = Pk.data \o c.b, !.end = Pk.end + c.len],
          error |-> 0]

dns_d_push(Pk, dn) ==
    DPushed(Pk, SizeSub(Pk.size, Pk.end), dns_d_comp(SizeSub(Pk.size, Pk.end), dn, Pk))

(***************************************************************************)
(* The packet routines: dns_p_init, dns_p_count, the record-type pushes    *)
(* and dns_p_push.                                                         *)
(***************************************************************************)
Zeros(n) == [i \in 1..n |-> 0]

\* P->data[P->end++] = ... for each octet of bytes
PutBytes(Pk, bytes) == [Pk EXCEPT !.data = Pk.data \o bytes, !.end = Pk.end + Len(bytes)]

\* an error exit that leaves P->end where the failed step put it
KeepEnd(Pk, end) == Pk

\* P->end = end: the octets written behind the restored end are never read again
RestoreEnd(Pk, end) == [Pk EXCEPT !.end = end, !.data = Take(Pk.data, end)]

\* the two octets of a 16-bit value, high octet first
Be16(n) == <<(n \div 256) % 256, n % 256>>

\* the header after "*P = P_initializer": the twelve octets are zero (the extent
\* of struct dns_packet is declared in dns.h)
HeaderInit == Zeros(12)

dns_p_init(size) ==
    [data |-> HeaderInit, end |-> 12, size |-> SizeSub(size, PacketDataOffset),
     dict |-> Zeros(DictLen)]

\* the C index of a section's count in the header; -1 for no section
CountAt(section) ==
    CASE section = DNS_S_QD -> 4
      [] section = DNS_S_AN -> 6
      [] section = DNS_S_NS -> 8
      [] section = DNS_S_AR -> 10
      [] OTHER -> -1

\* ntohs(dns_header(P)->qdcount) and so on
HeaderCount(Pk, section) ==
    Byte(Pk.data, CountAt(section)) * 256 + Byte(Pk.data, CountAt(section) + 1)

\* DNS_S_ALL is 15, the four section bits
dns_p_count(Pk, section) ==
    IF section = 15
    THEN HeaderCount(Pk, DNS_S_QD) + HeaderCount(Pk, DNS_S_AN)
         + HeaderCount(Pk, DNS_S_NS) + HeaderCount(Pk, DNS_S_AR)
    ELSE IF CountAt(section) >= 0 THEN HeaderCount(Pk, section)
    ELSE 0

\* a push that counts every record as an answer
IncAnswerCount(Pk, section) ==
    LET n == U16(HeaderCount(Pk, DNS_S_AN) + 1) IN
    [Pk EXCEPT !.data = SetAt(SetAt(Pk.data, CountAt(DNS_S_AN), n \div 256),
                              CountAt(DNS_S_AN) + 1, n % 256)]

\* dns_header(P)->xxcount = htons(ntohs(dns_header(P)->xxcount) + 1)
IncCount(Pk, section) ==
    IF CountAt(section) < 0 THEN Pk
    ELSE LET n == U16(HeaderCount(Pk, section) + 1) IN
         [Pk EXCEPT !.data = SetAt(SetAt(Pk.data, CountAt(section), n \div 256),
                                   CountAt(section) + 1, n % 256)]

\* rdata handed to a push ("union dns_any"): the octets of an address, a text or
\* an opaque rdata, the preference of an MX, the host of an MX, NS or CNAME
dns_a_push(Pk, any) ==
    IF SizeSub(Pk.size, Pk.end) < 6 THEN [P |-> Pk, error |-> -1]
    ELSE [P |-> PutBytes(Pk, <<0, 4>> \o SubSeq(any.octets, 1, 4)), error |-> 0]

dns_aaaa_push(Pk, any) ==
    IF SizeSub(Pk.size, Pk.end) < 2 + 16 THEN [P |-> Pk, error |-> -1]
    ELSE [P |-> PutBytes(Pk, <<0, 16>> \o SubSeq(any.octets, 1, 16)), error |-> 0]

\* the rdlength octets at C index end are filled in after the name is pushed
BackFill(Pk, end) ==
    LET len == SizeSub(SizeSub(Pk.end, end), 2) IN
    [Pk EXCEPT !.data = SetAt(SetAt(Pk.data, end, (len \div 256) % 256),
                              end + 1, len % 256)]

\* dns_mx_push and dns_ns_push behind their dns_d_push call, which returned r
HostPushed(r, end) ==
    IF r.error # 0 THEN [P |-> RestoreEnd(r.P, end), error |-> r.error]
    ELSE [P |-> BackFill(r.P, end), error |-> 0]

dns_mx_push(Pk, any) ==
    IF SizeSub(Pk.size, Pk.end) < 5 THEN [P |-> Pk, error |-> -1]
    ELSE HostPushed(dns_d_push(PutBytes(Pk, <<0, 0>> \o Be16(any.preference)), any.host),
                    Pk.end)

dns_ns_push(Pk, any) ==
    IF SizeSub(Pk.size, Pk.end) < 3 THEN [P |-> Pk, error |-> -1]
    ELSE HostPushed(dns_d_push(PutBytes(Pk, <<0, 0>>), any.host), Pk.end)

dns_cname_push(Pk, any) == dns_ns_push(Pk, any)

\* the chunk loop of dns_txt_push: dst holds the octets written from P->end on
RECURSIVE TxtChunks(_, _, _, _, _)
TxtChunks(dst, dstp, dstend, src, srcp) ==
    IF srcp < Len(src)
    THEN LET n == (Len(src) - srcp) % 256 IN
         IF dstp >= dstend THEN [error |-> -1, dst |-> dst]
         \* with n = 0 the loop writes a zero octet and advances dst alone,
         \* round after round, until dst is full
         ELSE IF n = 0 THEN [error |-> -1, dst |-> dst \o Zeros(dstend - dstp)]
         ELSE IF SizeSub(dstend, dstp + 1) < n THEN [error |-> -1, dst |-> dst]
         ELSE TxtChunks(dst \o <<n>> \o SubSeq(src, srcp + 1, srcp + n),
                        dstp + 1 + n, dstend, src, srcp + n)
    ELSE [error |-> 0, dst |-> dst]

dns_txt_push(Pk, any) ==
    IF SizeSub(Pk.size, Pk.end) < 2 THEN [P |-> Pk, error |-> -1]
    ELSE LET n == Len(any.octets) + 1 + (Len(any.octets) \div 256)
             r == TxtChunks(Be16(n), Pk.end + 2, Pk.size, any.octets, 0)
         IN  IF r.error # 0 THEN [P |-> Pk, error |-> -1]
             ELSE [P |-> PutBytes(Pk, r.dst), error |-> 0]

\* dns_rrtypes[] and the opaque fallback of dns_any_push
dns_any_push(Pk, any, type) ==
    CASE type = DNS_T_A -> dns_a_push(Pk, any)
      [] type = DNS_T_AAAA -> dns_aaaa_push(Pk, any)
      [] type = DNS_T_MX -> dns_mx_push(Pk, any)
      [] type = DNS_T_NS -> dns_ns_push(Pk, any)
      [] type = DNS_T_CNAME -> dns_cname_push(Pk, any)
      [] type = DNS_T_TXT -> dns_txt_push(Pk, any)
      [] OTHER ->
            IF SizeSub(Pk.size, Pk.end) < Len(any.octets) + 2
            THEN [P |-> Pk, error |-> -1]
            ELSE [P |-> PutBytes(Pk, Be16(Len(any.octets)) \o any.octets), error |-> 0]

\* the four TTL octets: the top bit of the 32-bit ttl is masked off.  A ttl is
\* given as its top octet hi and its low 24 bits lo.
TtlBytes(ttl) == <<ttl.hi % 128, (ttl.lo \div 65536) % 256, (ttl.lo \div 256) % 256, ttl.lo % 256>>

\* the packet after the call, the value returned and the step that failed
\* behind the dns_any_push call, which returned r4
PushCount(r4, end, section) ==
    IF r4.error # 0
    THEN [P |-> RestoreEnd(r4.P, end), error |-> r4.error, step |-> "rdata"]
    ELSE [P |-> IncCount(r4.P, section), error |-> 0, step |-> "done"]

\* behind the type and class octets, which left the packet P2
PushTtl(P2, end, section, type, ttl, any) ==
    IF section = DNS_S_QD
    THEN [P |-> IncCount(P2, DNS_S_QD), error |-> 0, step |-> "done"]
    ELSE IF SizeSub(P2.size, P2.end) < 6
    THEN [P |-> RestoreEnd(P2, end), error |-> -1, step |-> "ttl"]
    ELSE PushCount(dns_any_push(PutBytes(P2, TtlBytes(ttl)), any, type), end, section)

\* behind the dns_d_push call, which returned r1
PushTypeClass(r1, end, section, type, class, ttl, any) ==
    IF r1.error # 0
    THEN [P |-> RestoreEnd(r1.P, end), error |-> r1.error, step |-> "name"]
    ELSE IF SizeSub(r1.P.size, r1.P.end) < 4
    THEN [P |-> RestoreEnd(r1.P, end), error |-> -1, step |-> "typeclass"]
    ELSE PushTtl(PutBytes(r1.P, Be16(type) \o Be16(class)), end, section, type, ttl, any)

dns_p_push(Pk, section, dn, type, class, ttl, any) ==
    PushTypeClass(dns_d_push(Pk, dn), Pk.end, section, type, class, ttl, any)

(***************************************************************************)
(* dns_d_skip and dns_d_expand.                                            *)
(***************************************************************************)
\* DNS_D_MAXNAME: the callers' name buffers hold DNS_D_MAXNAME + 1 octets
DNS_D_MAXNAME == 255

RECURSIVE dns_d_skip(_, _)
dns_d_skip(src, Pk) ==
    IF src < Pk.end
    THEN CASE Top2(Byte(Pk.data, src)) = 0 ->
                LET len == Low6(Byte(Pk.data, src))
                    s1 == U16(src + 1)
                IN  IF len = 0 THEN s1
                    ELSE IF SizeSub(Pk.end, s1) > len THEN dns_d_skip(U16(s1 + len), Pk)
                    ELSE U16(Pk.end)
           [] Top2(Byte(Pk.data, src)) = 3 ->
                IF SizeSub(Pk.end, src) < 2 THEN U16(Pk.end) ELSE U16(src + 2)
           [] OTHER -> U16(Pk.end)
    ELSE U16(Pk.end)

\* The locals of a dns_d_expand call: src, dstp and nptrs, the octets written to
\* dst (none at an index >= lim), and, once it has returned, the value returned
\* and the error flag (0 while no error is stored).
ExpandStart(src) ==
    [src |-> src, dstp |-> 0, nptrs |-> 0, dst |-> <<>>,
     done |-> FALSE, ret |-> 0, error |-> 0]

\* dst[MIN(dstp, lim - 1)] = '\0' when lim > 0
NulAt(dst, dstp, lim) == IF lim > 0 THEN SetAt(dst, Min(dstp, lim - 1), 0) ELSE dst

\* an error exit that does not store the error
ExpandFailSilent(st, lim) ==
    [st EXCEPT !.done = TRUE, !.ret = 0, !.dst = NulAt(st.dst, st.dstp, lim)]

\* the exits "toolong" and "reserved"
ExpandFail(st, lim) ==
    [st EXCEPT !.done = TRUE, !.ret = 0, !.error = -1, !.dst = NulAt(st.dst, st.dstp, lim)]

\* a label of len octets at s1 is copied, followed by a dot
ExpandLabel(st, s1, len, data, lim) ==
    LET n == IF st.dstp < lim THEN Min(len, lim - st.dstp) ELSE 0
        d1 == st.dst \o [i \in 1..n |-> Byte(data, s1 + i - 1)]
        p1 == st.dstp + len
    IN  [st EXCEPT !.src = U16(s1 + len), !.dstp = p1 + 1, !.nptrs = 0,
                   !.dst = IF p1 < lim THEN SetAt(d1, p1, 46) ELSE d1]

\* the root label ends the name
ExpandRoot(st, lim) ==
    LET d1 == IF st.dstp = 0 /\ st.dstp < lim THEN SetAt(st.dst, 0, 46) ELSE st.dst
        p1 == IF st.dstp = 0 THEN 1 ELSE st.dstp
    IN  [st EXCEPT !.done = TRUE, !.ret = p1, !.dstp = p1, !.dst = NulAt(d1, p1, lim)]

\* one pass through the body of "while (src < P->end)"
ExpandStep(st, data, end, lim) ==
    IF ~(st.src < end) THEN ExpandFail(st, lim)
    ELSE CASE Top2(Byte(data, st.src)) = 0 ->
                LET len == Low6(Byte(data, st.src))
                    s1 == U16(st.src + 1)
                IN  IF len = 0 THEN ExpandRoot(st, lim)
                    ELSE IF SizeSub(end, s1) < len THEN ExpandFail([st EXCEPT !.src = s1], lim)
                    ELSE ExpandLabel(st, s1, len, data, lim)
           [] Top2(Byte(data, st.src)) = 3 ->
                IF st.nptrs + 1 > DNS_D_MAXPTRS
                THEN ExpandFail([st EXCEPT !.nptrs = st.nptrs + 1], lim)
                ELSE IF SizeSub(end, st.src) < 2
                THEN ExpandFail([st EXCEPT !.nptrs = st.nptrs + 1], lim)
                ELSE [st EXCEPT !.nptrs = st.nptrs + 1,
                                !.src = Low6(Byte(data, st.src)) * 256
                                        + Byte(data, st.src + 1)]
           [] OTHER -> ExpandFail(st, lim)

\* The call run to its return.  A walk of more than fuel passes is cut off with
\* error -2; no walk of a packet built by dns_p_push is that long.
RECURSIVE ExpandRun(_, _, _, _, _)
ExpandRun(st, data, end, lim, fuel) ==
    IF st.done THEN st
    ELSE IF fuel = 0 THEN [st EXCEPT !.done = TRUE, !.ret = 0, !.error = -2]
    ELSE ExpandRun(ExpandStep(st, data, end, lim), data, end, lim, fuel - 1)

\* dns_d_expand(dst, lim, src, P, &error): the value returned, the error flag
\* and the C string left in dst
dns_d_expand(lim, src, Pk) ==
    LET st == ExpandRun(ExpandStart(src), Pk.data, Pk.end, lim, 2 * Pk.end + 2) IN
    [ret |-> st.ret, error |-> st.error, text |-> CStr(st.dst)]

(***************************************************************************)
(* The resource-record routines: dns_rr_parse, dns_rr_len, dns_rr_grep,    *)
(* and the record-type parsers.                                            *)
(***************************************************************************)
NoRR == [dn |-> [p |-> 0, len |-> 0], type |-> 0, class |-> 0, ttl |-> 0,
         rd |-> [p |-> 0, len |-> 0], section |-> 0]

\* a parse that does not compare rdlength with the octets left
RRParseUnchecked(src, Pk) ==
    LET p1 == dns_d_skip(src, Pk)
        p2 == p1 + 4
        p3 == p2 + 4
        p4 == p3 + 2
        rdlen == Byte(Pk.data, p3) * 256 + Byte(Pk.data, p3 + 1)
        hdr == [NoRR EXCEPT !.dn = [p |-> src, len |-> U16(p1 - src)],
                            !.type = Byte(Pk.data, p1) * 256 + Byte(Pk.data, p1 + 1),
                            !.class = Byte(Pk.data, p1 + 2) * 256 + Byte(Pk.data, p1 + 3)]
    IN  IF src >= Pk.end THEN [error |-> -1, rr |-> NoRR]
        ELSE IF SizeSub(Pk.end, p1) < 4 THEN [error |-> -1, rr |-> NoRR]
        ELSE IF src = 12 THEN [error |-> 0, rr |-> hdr]
        ELSE IF SizeSub(Pk.end, p2) < 4 THEN [error |-> -1, rr |-> NoRR]
        ELSE IF SizeSub(Pk.end, p3) < 2 THEN [error |-> -1, rr |-> NoRR]
        ELSE [error |-> 0,
              rr |-> [hdr EXCEPT !.ttl = (Byte(Pk.data, p2) % 128) * 16777216
                                         + Byte(Pk.data, p2 + 1) * 65536
                                         + Byte(Pk.data, p2 + 2) * 256
                                         + Byte(Pk.data, p2 + 3),
                                 !.rd = [p |-> U16(p4), len |-> rdlen]]]

\* the value returned and the record filled in (NoRR when an error is returned)
dns_rr_parse(src, Pk) ==
    LET p1 == dns_d_skip(src, Pk)
        p2 == p1 + 4
        p3 == p2 + 4
        p4 == p3 + 2
        rdlen == Byte(Pk.data, p3) * 256 + Byte(Pk.data, p3 + 1)
        hdr == [NoRR EXCEPT !.dn = [p |-> src, len |-> U16(p1 - src)],
                            !.type = Byte(Pk.data, p1) * 256 + Byte(Pk.data, p1 + 1),
                            !.class = Byte(Pk.data, p1 + 2) * 256 + Byte(Pk.data, p1 + 3)]
    IN  IF src >= Pk.end THEN [error |-> -1, rr |-> NoRR]
        ELSE IF SizeSub(Pk.end, p1) < 4 THEN [error |-> -1, rr |-> NoRR]
        ELSE IF src = 12 THEN [error |-> 0, rr |-> hdr]
        ELSE IF SizeSub(Pk.end, p2) < 4 THEN [error |-> -1, rr |-> NoRR]
        ELSE IF SizeSub(Pk.end, p3) < 2 THEN [error |-> -1, rr |-> NoRR]
        ELSE IF SizeSub(Pk.end, p4) < rdlen THEN [error |-> -1, rr |-> NoRR]
        ELSE [error |-> 0,
              rr |-> [hdr EXCEPT !.ttl = (Byte(Pk.data, p2) % 128) * 16777216
                                         + Byte(Pk.data, p2 + 1) * 65536
                                         + Byte(Pk.data, p2 + 2) * 256
                                         + Byte(Pk.data, p2 + 3),
                                 !.rd = [p |-> U16(p4), len |-> rdlen]]]

dns_rr_len(rr) ==
    IF rr.dn.p = 12 THEN U16(rr.dn.len + 4)
    ELSE U16(rr.dn.len + 4 + 4 + 2 + rr.rd.len)

\* DNS_RR_I_STATE_INITIALIZER: the first section, the offset behind the header
RRIStart == [section |-> DNS_S_QD, next |-> 12, index |-> 0]

\* a filter that lets every record pass (the fields of struct dns_rr_i left zero)
NoFilter == [section |-> 0, type |-> 0, class |-> 0, name |-> <<>>]

\* the filter tests of dns_rr_grep: TRUE when the record is passed over.
\* DNS_T_ALL and DNS_C_ANY are 255; name = <<>> stands for no name.
GrepSkips(rr, flt, Pk) ==
    \/ flt.section # 0 /\ (flt.section \div rr.section) % 2 = 0
    \/ flt.type # 0 /\ rr.type # flt.type /\ flt.type # 255
    \/ flt.class # 0 /\ rr.class # flt.class /\ flt.class # 255
    \/ flt.name # <<>>
       /\ ~StrCaseEq(dns_d_expand(DNS_D_MAXNAME + 1, rr.dn.p, Pk).text, flt.name)

\* the loop of dns_rr_grep: the records stored, the iterator state left behind
\* and the error flag
\* a return with lim records that leaves the iterator where it was
GrepFullStale(out, rr, st, st1) == [rrs |-> Append(out, rr), state |-> st, error |-> 0]

\* "return count" once count has reached lim: st1 is the state behind the record
GrepFull(out, rr, st, st1) == [rrs |-> Append(out, rr), state |-> st1, error |-> 0]

RECURSIVE dns_rr_grep(_, _, _, _, _)
dns_rr_grep(out, lim, st, flt, Pk) ==
    IF ~(st.next < Pk.end) THEN [rrs |-> out, state |-> st, error |-> 0]
    ELSE IF st.index >= dns_p_count(Pk, st.section)
    THEN IF DNS_S_AR < st.section * 2
         THEN [rrs |-> out, state |-> [st EXCEPT !.section = st.section * 2], error |-> 0]
         ELSE dns_rr_grep(out, lim, [st EXCEPT !.section = st.section * 2, !.index = 0],
                          flt, Pk)
    ELSE LET r == dns_rr_parse(st.next, Pk)
             rr == [r.rr EXCEPT !.section = st.section]
             st1 == [st EXCEPT !.next = U16(st.next + dns_rr_len(rr)),
                               !.index = st.index + 1]
         IN  IF r.error # 0 THEN [rrs |-> out, state |-> st, error |-> r.error]
             ELSE IF GrepSkips(rr, flt, Pk) THEN dns_rr_grep(out, lim, st1, flt, Pk)
             ELSE IF Len(out) + 1 < lim THEN dns_rr_grep(Append(out, rr), lim, st1, flt, Pk)
             ELSE GrepFull(out, rr, st, st1)

\* the octets of data a record-type parser can store: the size of union dns_any
\* less the header of struct dns_txt
AnyDataSize == 256

NoAny == [octets |-> <<>>, preference |-> 0, host |-> <<>>]

RdOctets(rr, Pk) == [i \in 1..rr.rd.len |-> Byte(Pk.data, rr.rd.p + i - 1)]

dns_a_parse(rr, Pk) ==
    IF rr.rd.len # 4 THEN [error |-> -1, any |-> NoAny]
    ELSE [error |-> 0, any |-> [NoAny EXCEPT !.octets = RdOctets(rr, Pk)]]

dns_aaaa_parse(rr, Pk) ==
    IF rr.rd.len # 16 THEN [error |-> -1, any |-> NoAny]
    ELSE [error |-> 0, any |-> [NoAny EXCEPT !.octets = RdOctets(rr, Pk)]]

\* the host of an NS, CNAME or MX expanded into a buffer of DNS_D_MAXNAME + 1 octets
HostParse(src, preference, Pk) ==
    LET e == dns_d_expand(DNS_D_MAXNAME + 1, src, Pk) IN
    IF e.ret = 0 THEN [error |-> e.error, any |-> NoAny]
    ELSE IF e.ret >= DNS_D_MAXNAME + 1 THEN [error |-> -1, any |-> NoAny]
    ELSE [error |-> 0, any |-> [NoAny EXCEPT !.host = e.text, !.preference = preference]]

dns_mx_parse(rr, Pk) ==
    IF rr.rd.len < 3 THEN [error |-> -1, any |-> NoAny]
    ELSE HostParse(U16(rr.rd.p + 2),
                   Byte(Pk.data, rr.rd.p) * 256 + Byte(Pk.data, rr.rd.p + 1), Pk)

dns_ns_parse(rr, Pk) == HostParse(rr.rd.p, 0, Pk)

dns_cname_parse(rr, Pk) == dns_ns_parse(rr, Pk)

\* the chunk loop of dns_txt_parse
RECURSIVE TxtParseChunks(_, _, _, _)
TxtParseChunks(dst, srcp, srcend, Pk) ==
    IF srcp < srcend
    THEN LET n == Byte(Pk.data, srcp) IN
         IF SizeSub(srcend, srcp + 1) < n \/ SizeSub(AnyDataSize, Len(dst)) < n
         THEN [error |-> -1, any |-> NoAny]
         ELSE TxtParseChunks(dst \o [i \in 1..n |-> Byte(Pk.data, srcp + i)],
                             srcp + 1 + n, srcend, Pk)
    ELSE [error |-> 0, any |-> [NoAny EXCEPT !.octets = dst]]

dns_txt_parse(rr, Pk) == TxtParseChunks(<<>>, rr.rd.p, rr.rd.p + rr.rd.len, Pk)

dns_any_parse(rr, Pk) ==
    CASE rr.type = DNS_T_A -> dns_a_parse(rr, Pk)
      [] rr.type = DNS_T_AAAA -> dns_aaaa_parse(rr, Pk)
      [] rr.type = DNS_T_MX -> dns_mx_parse(rr, Pk)
      [] rr.type = DNS_T_NS -> dns_ns_parse(rr, Pk)
      [] rr.type = DNS_T_CNAME -> dns_cname_parse(rr, Pk)
      [] rr.type = DNS_T_TXT -> dns_txt_parse(rr, Pk)
      [] OTHER ->
            IF rr.rd.len > AnyDataSize THEN [error |-> -1, any |-> NoAny]
            ELSE [error |-> 0, any |-> [NoAny EXCEPT !.octets = RdOctets(rr, Pk)]]

(***************************************************************************)
(* Building a packet: dns_p_init, then dns_p_push calls.                   *)
(***************************************************************************)
\* the number of dns_p_push calls made on one packet
MaxPush == 3

NoTtl == [hi |-> 0, lo |-> 0]

Req(section, dn, type, ttl, any) ==
    [section |-> section, dn |-> dn, type |-> type, class |-> DNS_C_IN,
     ttl |-> ttl, any |-> any]

\* the dns_p_push calls tried, on the names "a.c", "b.b", "a.b", "b", "B.B." and
\* the root ".": questions, and records of every section with an
\* address, a host name, a text, an empty text or an opaque rdata
Requests ==
    { Req(DNS_S_QD, dn, DNS_T_A, NoTtl, NoAny) :
        dn \in { <<97, 46, 99>>, <<98, 46, 98>>, <<97, 46, 98>>, <<98>> } }
    \cup
    { Req(DNS_S_AN, <<66, 46, 66, 46>>, DNS_T_A, [hi |-> 129, lo |-> 3600],
          [NoAny EXCEPT !.octets = <<1, 2, 3, 4>>]),
      Req(DNS_S_AN, <<98>>, DNS_T_MX, [hi |-> 0, lo |-> 5],
          [NoAny EXCEPT !.preference = 10, !.host = <<97, 46, 98>>]),
      Req(DNS_S_NS, <<97, 46, 99>>, DNS_T_NS, [hi |-> 0, lo |-> 5],
          [NoAny EXCEPT !.host = <<98, 46, 98>>]),
      Req(DNS_S_AR, <<46>>, DNS_T_A, [hi |-> 0, lo |-> 5],
          [NoAny EXCEPT !.octets = <<1, 2, 3, 4>>]),
      Req(DNS_S_AR, <<98, 46, 98>>, DNS_T_TXT, [hi |-> 0, lo |-> 5],
          [NoAny EXCEPT !.octets = <<120>>]),
      Req(DNS_S_NS, <<98>>, DNS_T_TXT, [hi |-> 0, lo |-> 5], NoAny),
      Req(DNS_S_AN, <<97, 46, 98>>, 99, [hi |-> 0, lo |-> 5],
          [NoAny EXCEPT !.octets = <<1, 2>>]) }

\* the size argument of dns_p_init: the packet structure with room for the
\* header and for 17, 28 or 64 more octets
Sizes == { PacketDataOffset + 12 + room : room \in {17, 28, 64} }

\* every size the assertion of dns_p_init accepts that is no smaller than the
\* packet structure itself
AnySizes == Sizes \cup { PacketDataOffset + room : room \in {0, 5, 12} }

\* what a successful push appended, as a logical record: names anchored and in
\* lower case, the TTL modulo 2^31, the rdata its type carries; a question
\* carries no TTL and no rdata
LogAny(type, any) ==
    CASE type \in {DNS_T_A} -> [NoAny EXCEPT !.octets = SubSeq(any.octets, 1, 4)]
      [] type \in {DNS_T_AAAA} -> [NoAny EXCEPT !.octets = SubSeq(any.octets, 1, 16)]
      [] type = DNS_T_MX -> [NoAny EXCEPT !.preference = any.preference,
                                          !.host = Lower(dns_d_anchor(any.host))]
      [] type \in {DNS_T_NS, DNS_T_CNAME} ->
            [NoAny EXCEPT !.host = Lower(dns_d_anchor(any.host))]
      [] OTHER -> [NoAny EXCEPT !.octets = any.octets]

LogRecord(req) ==
    [section |-> req.section, name |-> Lower(dns_d_anchor(req.dn)), type |-> req.type,
     class |-> req.class,
     ttl |-> IF req.section = DNS_S_QD THEN 0 ELSE (req.ttl.hi % 128) * 16777216 + req.ttl.lo,
     any |-> IF req.section = DNS_S_QD THEN NoAny ELSE LogAny(req.type, req.any)]

NoReq == Req(0, <<>>, 0, NoTtl, NoAny)

\* the values of the variables a specification does not use
XIdle == [data |-> <<>>, end |-> 0]
XpIdle == [st |-> ExpandStart(0), start |-> 0, hops |-> 0]
XsIdle == [src |-> 0, ret |-> 0]
RcIdle == [qname |-> <<>>, ndots |-> 0, search |-> <<>>]
SrchIdle == [state |-> 0, out |-> <<>>]
ConfIdle == [resconf |-> <<>>, loads |-> 0]
RefIdle == [refcount |-> 0, freed |-> 0]
HintsIdle == [head |-> <<>>, now |-> 0]

PIdle == [data |-> <<>>, end |-> 0, size |-> 0, dict |-> <<>>]
LastIdle == [calls |-> 0, req |-> NoReq, error |-> 0, step |-> "init", pre |-> PIdle]

PacketInit(sizes) ==
    /\ \E size \in sizes : P = dns_p_init(size)
    /\ log = <<>>
    /\ last = [LastIdle EXCEPT !.pre = P]

Init ==
    /\ PacketInit(Sizes)
    /\ X = XIdle /\ xp = XpIdle /\ xs = XsIdle
    /\ rc = RcIdle /\ srch = SrchIdle
    /\ conf = ConfIdle /\ ref = RefIdle /\ hints = HintsIdle

\* one dns_p_push call
PReturn(r, req) ==
    /\ P' = r.P
    /\ log' = IF r.error = 0 THEN Append(log, LogRecord(req)) ELSE log
    /\ last' = [calls |-> last.calls + 1, req |-> req, error |-> r.error,
                step |-> r.step, pre |-> P]

PPush(req) ==
    /\ last.calls < MaxPush
    /\ PReturn(dns_p_push(P, req.section, req.dn, req.type, req.class, req.ttl, req.any),
               req)
    /\ UNCHANGED <<xvars, svars, cvars, rvars, hvars>>

Next == \E req \in Requests : PPush(req)

Spec == Init /\ [][Next]_vars

\* the same calls on a packet initialised with any accepted size
InitAnySize ==
    /\ PacketInit(AnySizes)
    /\ X = XIdle /\ xp = XpIdle /\ xs = XsIdle
    /\ rc = RcIdle /\ srch = SrchIdle
    /\ conf = ConfIdle /\ ref = RefIdle /\ hints = HintsIdle

SpecAnySize == InitAnySize /\ [][Next]_vars

(***************************************************************************)
(* Properties of the packet under construction.                            *)
(***************************************************************************)
Pushed == last.calls > 0 /\ last.error = 0

\* the owner name of the last push, read back from the offset it was written at
OwnerBack == dns_d_expand(DNS_D_MAXNAME + 1, last.pre.end, P)

\* C1: after a successful push of a name N, dns_d_expand at the offset where N
\* was written succeeds and yields anchor(N), compared case-insensitively.
C1_ExpandInvertsPush ==
    Pushed =>
        /\ OwnerBack.error = 0
        /\ OwnerBack.ret = Len(dns_d_anchor(last.req.dn))
        /\ Lower(OwnerBack.text) = Lower(dns_d_anchor(last.req.dn))

\* the records of the packet as dns_rr_grep and the parsers report them
ParsedAny(rr, Pk) ==
    LET r == dns_any_parse(rr, Pk) IN
    IF rr.section = DNS_S_QD THEN NoAny
    ELSE IF r.error # 0 THEN [NoAny EXCEPT !.preference = -1]
    ELSE [r.any EXCEPT !.host = Lower(r.any.host)]

ParsedRecord(rr, Pk) ==
    [section |-> rr.section,
     name |-> Lower(dns_d_expand(DNS_D_MAXNAME + 1, rr.dn.p, Pk).text),
     type |-> rr.type, class |-> rr.class, ttl |-> rr.ttl, any |-> ParsedAny(rr, Pk)]

ParsedRecords(Pk) ==
    LET g == dns_rr_grep(<<>>, 65535, RRIStart, NoFilter, Pk) IN
    [i \in 1..Len(g.rrs) |-> ParsedRecord(g.rrs[i], Pk)]

\* C2: iterating the packet yields exactly the pushed records, in push order,
\* each with the same section, owner name, type, class, TTL and rdata.
C2_GrepYieldsPushed == ParsedRecords(P) = log

Sections == {DNS_S_QD, DNS_S_AN, DNS_S_NS, DNS_S_AR}

\* C3: when dns_p_push returns an error, the end offset and the four section
\* counts are what they were before the call.
C3_FailedPushRestores ==
    (last.calls > 0 /\ last.error # 0) =>
        /\ P.end = last.pre.end
        /\ \A s \in Sections : dns_p_count(P, s) = dns_p_count(last.pre, s)

\* a push that failed in the rdata step, behind the name, type, class and TTL
C3_Witness == last.calls > 0 /\ last.error # 0 /\ last.step = "rdata"

\* C4: 12 <= end <= size in every state of a packet initialised with an
\* accepted size.
C4_EndWithinSize == 12 <= P.end /\ P.end <= P.size

\* C5: every section count is the number of successful pushes to that section,
\* and the count of all sections is the number of successful pushes.
C5_CountsMatchPushes ==
    /\ \A s \in Sections :
          dns_p_count(P, s) = Cardinality({i \in 1..Len(log) : log[i].section = s})
    /\ dns_p_count(P, 15) = Len(log)

\* records were pushed to two sections, and one push failed
C5_Witness ==
    /\ Len(log) >= 2 /\ last.calls > Len(log)
    /\ \E i, j \in 1..Len(log) : log[i].section # log[j].section

(***************************************************************************)
(* What the compression of a name is said to produce.                      *)
(***************************************************************************)
\* the offsets at which a name starting at o, and each of its suffixes, start
RECURSIVE NameOffsets(_, _, _)
NameOffsets(o, Pk, fuel) ==
    IF fuel = 0 \/ o >= Pk.end THEN {}
    ELSE LET b == Byte(Pk.data, o) IN
         IF Top2(b) = 3
         THEN {o} \cup NameOffsets(Low6(b) * 256 + Byte(Pk.data, o + 1), Pk, fuel - 1)
         ELSE IF Top2(b) = 0 /\ b # 0
         THEN {o} \cup NameOffsets(o + 1 + b, Pk, fuel - 1)
         ELSE {}

DictOffsets(Pk) ==
    UNION { NameOffsets(Pk.dict[i], Pk, 2 * DictLen) :
                i \in {j \in 1..DictLen : Pk.dict[j] # 0} }

\* the name that starts at o, lower-cased; the empty text when it does not expand
NameAt(o, Pk) ==
    LET e == dns_d_expand(DNS_D_MAXNAME + 1, o, Pk) IN
    IF e.error = 0 /\ e.ret > 0 THEN Lower(e.text) ELSE <<>>

\* a name in uncompressed wire form, as a packet of its own
Wire(dn) ==
    LET w == CompLabels(dn, 0, 0, <<>>, 0, 1) IN
    [data |-> w.b, end |-> w.p, size |-> w.p, dict |-> Zeros(DictLen)]

SuffixMatches(k, W, Pk) ==
    { o \in DictOffsets(Pk) :
        o <= 16383 /\ NameAt(k, W) # <<>> /\ NameAt(o, Pk) = NameAt(k, W) }

\* the outputs the rule allows for dn in packet Pk
Compressed(dn, Pk) ==
    LET W == Wire(dn)
        ks == {k \in NameOffsets(0, W, DNS_D_MAXNAME) : SuffixMatches(k, W, Pk) # {}}
    IN IF ks = {} THEN {W.data}
       ELSE LET k == CHOOSE x \in ks : \A y \in ks : x <= y IN
            { Take(W.data, k) \o <<192 + (o \div 256), o % 256>> :
                  o \in SuffixMatches(k, W, Pk) }

LastComp == dns_d_comp(SizeSub(last.pre.size, last.pre.end), last.req.dn, last.pre)

\* C8: a name pushed where there is room for it is written as its labels before
\* the longest suffix found in the dictionary, followed by a pointer to the
\* offset of that suffix; a name equal to a dictionary name is one pointer.
C8_PointerToLongestSuffix ==
    (last.calls > 0 /\ Wire(last.req.dn).end < SizeSub(last.pre.size, last.pre.end))
        => Take(LastComp.b, LastComp.len) \in Compressed(last.req.dn, last.pre)

\* the names pushed so far: owner names and the host names in MX and NS rdata
PushedNames ==
    { <<i, 0>> : i \in 1..Len(log) } \cup
    { <<i, 1>> : i \in {j \in 1..Len(log) : log[j].any.host # <<>>} }

PushedName(n) == IF n[2] = 0 THEN log[n[1]].name ELSE log[n[1]].any.host

Suffixes(dn) == { NameAt(k, Wire(dn)) : k \in NameOffsets(0, Wire(dn), DNS_D_MAXNAME) }

SharedSuffix ==
    \E m, n \in PushedNames :
        m # n /\ Suffixes(PushedName(m)) \cap Suffixes(PushedName(n)) # {}

\* the octets of a record when no name in it is compressed
NaiveRdata(r) ==
    IF r.type = DNS_T_MX THEN 2 + UncompressedLen(r.any.host)
    ELSE IF r.type \in {DNS_T_NS, DNS_T_CNAME} THEN UncompressedLen(r.any.host)
    ELSE IF r.type = DNS_T_TXT
    THEN Len(r.any.octets) + ((Len(r.any.octets) + 254) \div 255)
    ELSE Len(r.any.octets)

NaiveRecord(r) ==
    UncompressedLen(r.name) + 4 + (IF r.section = DNS_S_QD THEN 0 ELSE 6 + NaiveRdata(r))

RECURSIVE NaiveEnd(_)
NaiveEnd(l) == IF l = <<>> THEN 12 ELSE NaiveRecord(Head(l)) + NaiveEnd(Tail(l))

\* C9: the packet is never larger than with every name written in full, and
\* smaller as soon as two pushed names share a suffix of at least one label.
C9_SmallerWhenSuffixShared ==
    /\ P.end <= NaiveEnd(log)
    /\ SharedSuffix => P.end < NaiveEnd(log)

(***************************************************************************)
(* dns_d_expand and dns_d_skip on arbitrary packet octets.  X is a received *)
(* packet, xp the dns_d_expand call in progress on it with the offset it    *)
(* started at and the number of pointers it has followed, xs a dns_d_skip   *)
(* call at the same offset.                                                 *)
(***************************************************************************)
\* the octets after offset 20 that are chosen freely
TailLen == 4

\* the expansion is watched until it has followed this many pointers
HopCap == 130

\* the offset of the first free octet
TailAt == 20

\* a root/length octet, a label length, the two reserved patterns, a pointer
\* octet, and the offset of the first free octet
Octets == {0, 1, 64, 128, 192, TailAt}

ExpandPackets ==
    { [data |-> Zeros(TailAt) \o t, end |-> TailAt + Len(t)] :
        t \in [1..TailLen -> Octets] \cup [1..(TailLen - 1) -> Octets] }

InitExpand ==
    /\ X \in ExpandPackets
    /\ \E src \in TailAt..(X.end - 1) :
          xp = [st |-> ExpandStart(src), start |-> src, hops |-> 0]
    /\ xs = XsIdle
    /\ P = PIdle /\ log = <<>> /\ last = LastIdle
    /\ rc = RcIdle /\ srch = SrchIdle
    /\ conf = ConfIdle /\ ref = RefIdle /\ hints = HintsIdle

\* the pass follows a pointer
Follows(st, s) == ~s.done /\ s.nptrs = st.nptrs + 1

\* one pass of dns_d_expand(dst, DNS_D_MAXNAME + 1, src, X, &error)
XStep ==
    /\ ~xp.st.done
    /\ xp.hops < HopCap
    /\ LET s == ExpandStep(xp.st, X.data, X.end, DNS_D_MAXNAME + 1) IN
       xp' = [xp EXCEPT !.st = s, !.hops = IF Follows(xp.st, s) THEN @ + 1 ELSE @]
    /\ UNCHANGED <<X, xs, pvars, svars, cvars, rvars, hvars>>

\* dns_d_skip(src, X) at the offset the expansion started at
DSkip ==
    /\ xs = XsIdle
    /\ xs' = [src |-> xp.start, ret |-> dns_d_skip(xp.start, X)]
    /\ UNCHANGED <<X, xp, pvars, svars, cvars, rvars, hvars>>

NextExpand == XStep \/ DSkip

SpecExpand == InitExpand /\ [][NextExpand]_vars

\* the name starts with a pointer to itself
SelfPointer ==
    /\ X.end >= xp.start + 2
    /\ Byte(X.data, xp.start) = 192 /\ Byte(X.data, xp.start + 1) = xp.start

\* C6: on any packet octets dns_d_expand follows at most DNS_D_MAXPTRS pointers
\* before it returns, and a pointer at offset 20 to offset 20 ends in an error.
C6_ExpandBounded ==
    /\ xp.hops <= DNS_D_MAXPTRS
    /\ (SelfPointer /\ xp.st.done) => (xp.st.ret = 0 /\ xp.st.error # 0)

\* the octet at the start offset has top bits 01 or 10
Reserved == xp.start < X.end /\ Top2(Byte(X.data, xp.start)) \in {1, 2}

SearchMax == 6

\* the number of '.' in qname, as the memchr loop counts them
DotCount(qname) == Cardinality({i \in 1..Len(qname) : qname[i] = 46})

\* the state word: phase, search index and dot count, eight bits each
SearchPack(st, srchi, ndots) ==
    (st % 256) + 256 * (srchi % 256) + 65536 * (ndots % 256)

\* case 2 and the default case
SearchBare(st, srchi, ndots, qname, resconf) ==
    [out |-> IF ndots < resconf.ndots THEN dns_d_anchor(qname) ELSE <<>>,
     state |-> SearchPack(st + 1, srchi, ndots)]

\* case 1
SearchSuffix(st, srchi, ndots, qname, resconf) ==
    IF srchi < SearchMax /\ resconf.search[srchi + 1] # <<>>
    THEN [out |-> dns_d_anchor(qname) \o resconf.search[srchi + 1],
          state |-> SearchPack(st, srchi + 1, ndots)]
    ELSE SearchBare(st + 1, srchi, ndots, qname, resconf)

\* dns_resconf_search(dst, lim, qname, qlen, resconf, &state): the text left in
\* dst and the new state word
dns_resconf_search(qname, resconf, state) ==
    LET srchi == (state \div 256) % 256
        ndots == (state \div 65536) % 256
    IN  CASE state % 256 = 0 ->
               LET nd == ndots + DotCount(qname) IN
               IF nd >= resconf.ndots
               THEN [out |-> dns_d_anchor(qname), state |-> SearchPack(state + 1, srchi, nd)]
               ELSE SearchSuffix(state + 1, srchi, nd, qname, resconf)
          [] state % 256 = 1 -> SearchSuffix(state, srchi, ndots, qname, resconf)
          [] state % 256 = 2 -> SearchBare(state, srchi, ndots, qname, resconf)
          [] OTHER -> [out |-> <<>>, state |-> SearchPack(state, srchi, ndots)]

\* the calls made with one state word
MaxCalls == 9

\* the dots of the longest query name
ManyDots == 256

\* "x", "x.y.z", "x." and "a.a. ... a." with ManyDots dots
QNames ==
    { <<120>>, <<120, 46, 121, 46, 122>>, <<120, 46>>,
      [i \in 1..(2 * ManyDots) |-> IF i % 2 = 1 THEN 97 ELSE 46] }

\* the search array after dns_resconf_open or a search directive: k anchored
\* names "a.", "b.", ... and empty entries behind them
SearchLists ==
    { [i \in 1..SearchMax |-> IF i <= k THEN <<96 + i, 46>> ELSE <<>>] :
        k \in {0, 1, 2, SearchMax} }

InitSearch ==
    /\ rc \in [qname : QNames, ndots : 0..3, search : SearchLists]
    /\ srch = SrchIdle
    /\ conf = ConfIdle /\ ref = RefIdle /\ hints = HintsIdle
    /\ P = PIdle /\ log = <<>> /\ last = LastIdle
    /\ X = XIdle /\ xp = XpIdle /\ xs = XsIdle

\* one call in the caller's loop
Search ==
    /\ Len(srch.out) < MaxCalls
    /\ LET r == dns_resconf_search(rc.qname, rc, srch.state) IN
       srch' = [state |-> r.state, out |-> Append(srch.out, r.out)]
    /\ UNCHANGED <<rc, pvars, xvars, cvars, rvars, hvars>>

NextSearch == Search

SpecSearch == InitSearch /\ [][NextSearch]_vars

\* the candidates in the order stated: the anchored name first when it has at
\* least ndots dots, the name with each search suffix, the anchored name last
\* when it has fewer dots
Candidates ==
    LET q == dns_d_anchor(rc.qname)
        d == DotCount(rc.qname)
        s == SelectSeq(rc.search, LAMBDA e : e # <<>>)
    IN  (IF d >= rc.ndots THEN <<q>> ELSE <<>>)
        \o [i \in 1..Len(s) |-> q \o s[i]]
        \o (IF d < rc.ndots THEN <<q>> ELSE <<>>)

\* C10: called repeatedly from state 0, dns_resconf_search returns the
\* candidates in that order and then 0 on every further call.
C10_SearchSequence ==
    \A i \in 1..Len(srch.out) :
        srch.out[i] = IF i <= Len(Candidates) THEN Candidates[i] ELSE <<>>

(***************************************************************************)
(* The resolver configuration and its loader.  A line of the file is a     *)
(* sequence of character codes without its newline; a word is a sequence   *)
(* of character codes; an address family is "AF_UNSPEC", "AF_INET" or      *)
(* "AF_INET6".                                                             *)
(***************************************************************************)
DNS_RESCONF_NAMESERVER == 0
DNS_RESCONF_DOMAIN == 1
DNS_RESCONF_SEARCH == 2
DNS_RESCONF_LOOKUP == 3
DNS_RESCONF_FILE == 4
DNS_RESCONF_BIND == 5
DNS_RESCONF_OPTIONS == 6
DNS_RESCONF_EDNS0 == 7
DNS_RESCONF_NDOTS == 8
DNS_RESCONF_RECURSIVE == 9
DNS_RESCONF_INTERFACE == 10

\* lengthof(resconf->lookup) and lengthof(resconf->nameserver)
LookupLen == 3
NameserverMax == 3
\* lengthof(words) in dns_resconf_loadfile
WordsMax == 6

\* the first dot of src at C index 1 or later, or -1
RECURSIVE InnerDot(_, _)
InnerDot(src, i) ==
    IF i >= Len(src) THEN -1
    ELSE IF src[i + 1] = 46 THEN i
    ELSE InnerDot(src, i + 1)

\* dst after dns_d_cleave(dst, lim, src, len): src without its first label,
\* or dst as it was when src has no dot behind its first character
dns_d_cleave(dst, src) ==
    LET dot == InnerDot(src, 1) IN
    IF Len(src) = 0 \/ dot < 0 THEN dst
    ELSE IF Len(src) - dot > 1 THEN SubSeq(src, dot + 2, Len(src))
    ELSE SubSeq(src, dot + 1, Len(src))

NoAddress == [family |-> "AF_UNSPEC", addr |-> <<>>, port |-> 0]

\* the configuration dns_resconf_open returns when gethostname gives host
dns_resconf_open(host) ==
    [lookup |-> <<98, 102, 0>>,
     nameserver |-> [i \in 1..NameserverMax |-> NoAddress],
     search |-> [i \in 1..SearchMax |->
                    IF i = 1 THEN dns_d_cleave(dns_d_anchor(host), dns_d_anchor(host))
                    ELSE <<>>],
     options |-> [ndots |-> 1, edns0 |-> 0, recursive |-> 0],
     interface |-> [NoAddress EXCEPT !.family = "AF_INET"]]

\* the table words[] of dns_resconf_keyword, entry i + 1 for the keyword i;
\* the entry of DNS_RESCONF_NDOTS is a null pointer
KeywordWords ==
    << <<110, 97, 109, 101, 115, 101, 114, 118, 101, 114>>,
       <<100, 111, 109, 97, 105, 110>>,
       <<115, 101, 97, 114, 99, 104>>,
       <<108, 111, 111, 107, 117, 112>>,
       <<102, 105, 108, 101>>,
       <<98, 105, 110, 100>>,
       <<111, 112, 116, 105, 111, 110, 115>>,
       <<101, 100, 110, 115, 48>>,
       <<>>,
       <<114, 101, 99, 117, 114, 115, 105, 118, 101>>,
       <<105, 110, 116, 101, 114, 102, 97, 99, 101>> >>

\* the first table entry equal to word, then the prefix "ndots:", then 0
RECURSIVE KeywordScan(_, _)
KeywordScan(word, i) ==
    IF i >= Len(KeywordWords)
    THEN IF Lower(Take(word, 6)) = <<110, 100, 111, 116, 115, 58>>
         THEN DNS_RESCONF_NDOTS ELSE 0
    ELSE IF i # DNS_RESCONF_NDOTS /\ StrCaseEq(KeywordWords[i + 1], word) THEN i
    ELSE KeywordScan(word, i + 1)

dns_resconf_keyword(word) == KeywordScan(word, 0)

dns_resconf_issep(ch) == ch \in {32, 9, 10, 11, 12, 13, 44}
dns_resconf_iscom(ch) == ch \in {35, 59}

\* the words[] array and wc of one line: words holds the finished words and
\* cur the word being filled
RECURSIVE Tokenize(_, _, _)
Tokenize(line, words, cur) ==
    LET fin == IF cur # <<>> THEN Append(words, cur) ELSE words IN
    IF line = <<>> THEN fin
    ELSE IF dns_resconf_issep(Head(line))
         THEN IF Len(fin) >= WordsMax THEN fin ELSE Tokenize(Tail(line), fin, <<>>)
    ELSE IF dns_resconf_iscom(Head(line)) THEN fin
    ELSE Tokenize(Tail(line), words, Append(cur, Head(line)))

\* the loop n = n * 10 + digit over the digits of s from C index j on
RECURSIVE Digits(_, _, _)
Digits(s, j, n) ==
    IF j < Len(s) /\ s[j + 1] \in 48..57 THEN Digits(s, j + 1, n * 10 + (s[j + 1] - 48))
    ELSE n

\* the fields of s between separators sep
RECURSIVE Fields(_, _, _)
Fields(s, sep, cur) ==
    IF s = <<>> THEN <<cur>>
    ELSE IF Head(s) = sep THEN <<cur>> \o Fields(Tail(s), sep, <<>>)
    ELSE Fields(Tail(s), sep, Append(cur, Head(s)))

\* inet_pton(3): ret is 1 and addr the address when src is its presentation
\* form.  An IPv4 address is four decimal fields of at most 255; an IPv6
\* address is kept as its groups, "::" giving an empty group.
dns_inet_pton(af, src) ==
    LET f4 == Fields(src, 46, <<>>)
        f6 == Fields(Lower(src), 58, <<>>)
        hex == (48..57) \cup (97..102)
    IN  IF af = "AF_INET"
        THEN IF /\ Len(f4) = 4
                /\ \A i \in 1..4 : /\ Len(f4[i]) \in 1..3
                                   /\ \A k \in 1..Len(f4[i]) : f4[i][k] \in 48..57
                                   /\ Digits(f4[i], 0, 0) <= 255
             THEN [ret |-> 1, addr |-> [i \in 1..4 |-> Digits(f4[i], 0, 0)]]
             ELSE [ret |-> 0, addr |-> <<>>]
        ELSE IF /\ Len(f6) \in 3..8
                /\ \A i \in 1..Len(f6) : /\ Len(f6[i]) <= 4
                                         /\ \A k \in 1..Len(f6[i]) : f6[i][k] \in hex
                /\ (Len(f6) = 8 \/ \E i \in 1..Len(f6) - 1 : f6[i] = <<>>)
             THEN [ret |-> 1, addr |-> f6]
             ELSE [ret |-> 0, addr |-> <<>>]

\* AF_INET6 when the word holds a ':', AF_INET otherwise
AddressFamily(word) == IF \E i \in 1..Len(word) : word[i] = 58 THEN "AF_INET6" ELSE "AF_INET"

\* the address slot after a successful conversion of word, or old
StoreAddress(old, word, port) ==
    LET r == dns_inet_pton(AddressFamily(word), word) IN
    IF r.ret # 1 THEN old
    ELSE [family |-> AddressFamily(word), addr |-> r.addr, port |-> port]

dns_resconf_setiface(resconf, addr, port) ==
    [resconf EXCEPT !.interface = StoreAddress(@, addr, port % 65536)]

\* the lookup directive: words from C index i on, tags written from C index j on
RECURSIVE LookupTags(_, _, _, _)
LookupTags(lookup, words, i, j) ==
    IF ~(i < Len(words) /\ j < LookupLen) THEN lookup
    ELSE IF dns_resconf_keyword(words[i + 1]) = DNS_RESCONF_FILE
         THEN LookupTags([lookup EXCEPT ![j + 1] = 102], words, i + 1, j + 1)
    ELSE IF dns_resconf_keyword(words[i + 1]) = DNS_RESCONF_BIND
         THEN LookupTags([lookup EXCEPT ![j + 1] = 98], words, i + 1, j + 1)
    ELSE LookupTags(lookup, words, i + 1, j)

\* the options directive: words from C index i on
RECURSIVE OptionWords(_, _, _)
OptionWords(options, words, i) ==
    IF i >= Len(words) THEN options
    ELSE IF dns_resconf_keyword(words[i + 1]) = DNS_RESCONF_EDNS0
         THEN OptionWords([options EXCEPT !.edns0 = 1], words, i + 1)
    ELSE IF dns_resconf_keyword(words[i + 1]) = DNS_RESCONF_NDOTS
         THEN OptionWords([options EXCEPT !.ndots = Digits(words[i + 1], 6, 0)], words, i + 1)
    ELSE IF dns_resconf_keyword(words[i + 1]) = DNS_RESCONF_RECURSIVE
         THEN OptionWords([options EXCEPT !.recursive = 1], words, i + 1)
    ELSE OptionWords(options, words, i + 1)

\* the nameserver directive on the slot sa_count
NameserverWord(st, word) ==
    LET slot == StoreAddress(NoAddress, word, 53) IN
    IF st.sa_count >= NameserverMax \/ slot = NoAddress THEN st
    ELSE [resconf |-> [st.resconf EXCEPT !.nameserver[st.sa_count + 1] = slot],
          sa_count |-> st.sa_count + 1]

\* one pass of the loop of dns_resconf_loadfile over the words of a line;
\* st holds the configuration and the local sa_count
LoadWords(st, words, kw) ==
    IF Len(words) < 2 THEN st
    ELSE IF kw = DNS_RESCONF_NAMESERVER THEN NameserverWord(st, words[2])
    ELSE IF kw \in {DNS_RESCONF_DOMAIN, DNS_RESCONF_SEARCH}
         THEN [st EXCEPT !.resconf.search =
                  [j \in 1..SearchMax |->
                      IF j + 1 <= Len(words) THEN dns_d_anchor(words[j + 1]) ELSE <<>>]]
    ELSE IF kw = DNS_RESCONF_LOOKUP
         THEN [st EXCEPT !.resconf.lookup = LookupTags(@, words, 1, 0)]
    ELSE IF kw = DNS_RESCONF_OPTIONS
         THEN [st EXCEPT !.resconf.options = OptionWords(@, words, 1)]
    ELSE IF kw = DNS_RESCONF_INTERFACE
         THEN [st EXCEPT !.resconf =
                  dns_resconf_setiface(@, words[2],
                      IF Len(words) > 2 THEN Digits(words[3], 0, 0) ELSE 0)]
    ELSE st

LoadLine(st, words) ==
    LoadWords(st, words, IF words = <<>> THEN 0 ELSE dns_resconf_keyword(words[1]))

\* the nameservers a reader of the configuration finds: the slots before the
\* first one of family AF_UNSPEC
RECURSIVE Nameservers(_, _)
Nameservers(resconf, i) ==
    IF i < NameserverMax /\ resconf.nameserver[i + 1].family # "AF_UNSPEC"
    THEN <<resconf.nameserver[i + 1]>> \o Nameservers(resconf, i + 1)
    ELSE <<>>

(***************************************************************************)
(* The loader reading files line by line into one configuration.           *)
(***************************************************************************)
MaxLoads == 2
MaxLines == 5

\* words joined by blanks
RECURSIVE Line(_)
Line(ws) ==
    IF ws = <<>> THEN <<>>
    ELSE IF Len(ws) = 1 THEN ws[1]
    ELSE ws[1] \o <<32>> \o Line(Tail(ws))

WFoo == <<102, 111, 111>>
WAddr1 == <<49, 46, 50, 46, 51, 46, 52>>
WAddr2 == <<53, 46, 54, 46, 55, 46, 56>>

ConfLines ==
    { Line(<<KeywordWords[1], WAddr1>>),
      Line(<<KeywordWords[1], WAddr2>>),
      Line(<<KeywordWords[1], <<58, 58, 49>> >>),
      Line(<<KeywordWords[1], WFoo>>),
      Line(<<<<78, 97, 109, 101, 83, 101, 114, 118, 101, 114>>, WAddr1>>),
      Line(<<WFoo, WAddr1>>),
      Line(<<WFoo, WFoo>>),
      Line(<<KeywordWords[5], WAddr1>>),
      <<59>> \o Line(<<KeywordWords[1], WAddr1>>),
      Line(<<KeywordWords[4], KeywordWords[5]>>),
      Line(<<KeywordWords[4], KeywordWords[6], WFoo, KeywordWords[5]>>),
      Line(<<KeywordWords[3], <<97>>, <<98, 46>> >>),
      Line(<<KeywordWords[2], <<97>> >>),
      Line(<<KeywordWords[7], <<110, 100, 111, 116, 115, 58, 51>>, KeywordWords[8]>>),
      Line(<<KeywordWords[7], KeywordWords[10]>>),
      Line(<<KeywordWords[11], WAddr2, <<53, 51>> >>) }

\* conf: the configuration, the number of dns_resconf_loadfile calls made on
\* it, the local sa_count of the running call, the number of lines read, and
\* of the last line read its words and the configuration before it
InitResconf ==
    /\ \E host \in {<<>>, <<104>>, <<104, 46, 97>>} :
          conf = [resconf |-> dns_resconf_open(host), loads |-> 0, sa_count |-> 0,
                  lines |-> 0, words |-> <<>>, pre |-> dns_resconf_open(host)]
    /\ ref = RefIdle /\ hints = HintsIdle
    /\ rc = RcIdle /\ srch = SrchIdle
    /\ P = PIdle /\ log = <<>> /\ last = LastIdle
    /\ X = XIdle /\ xp = XpIdle /\ xs = XsIdle

\* a call of dns_resconf_loadfile begins (the call before it has met EOF)
LoadFile ==
    /\ conf.loads < MaxLoads
    /\ conf' = [conf EXCEPT !.loads = @ + 1, !.sa_count = 0, !.words = <<>>,
                            !.pre = conf.resconf]
    /\ UNCHANGED <<pvars, xvars, svars, rvars, hvars>>

LoadReturn(st, words) ==
    conf' = [conf EXCEPT !.resconf = st.resconf, !.sa_count = st.sa_count,
                         !.lines = @ + 1, !.words = words, !.pre = conf.resconf]

\* the running call reads one line
LoadNext(line) ==
    /\ conf.loads > 0
    /\ conf.lines < MaxLines
    /\ LoadReturn(LoadLine([resconf |-> conf.resconf, sa_count |-> conf.sa_count],
                           Tokenize(line, <<>>, <<>>)),
                  Tokenize(line, <<>>, <<>>))
    /\ UNCHANGED <<pvars, xvars, svars, rvars, hvars>>

NextResconf == LoadFile \/ \E line \in ConfLines : LoadNext(line)

SpecResconf == InitResconf /\ [][NextResconf]_vars

\* the last step read a line of at least two words
LineRead == conf.words # <<>> /\ Len(conf.words) >= 2

Directives ==
    {DNS_RESCONF_NAMESERVER, DNS_RESCONF_DOMAIN, DNS_RESCONF_SEARCH,
     DNS_RESCONF_LOOKUP, DNS_RESCONF_OPTIONS, DNS_RESCONF_INTERFACE}

\* the first word of the last line is the name of the directive kw
IsDirective(kw) == LineRead /\ StrCaseEq(conf.words[1], KeywordWords[kw + 1])

\* C11: a line whose first word is not one of the directives nameserver,
\* domain, search, lookup, options, interface leaves the whole configuration
\* as it was before the line.
C11_UnknownLineIgnored ==
    (LineRead /\ \A kw \in Directives : ~IsDirective(kw)) => conf.resconf = conf.pre

\* the file and bind tokens of the last line as tags, in order
LookupTokens ==
    LET t == SelectSeq(Tail(conf.words),
                 LAMBDA w : StrCaseEq(w, KeywordWords[5]) \/ StrCaseEq(w, KeywordWords[6]))
    IN  [i \in 1..Len(t) |-> IF StrCaseEq(t[i], KeywordWords[5]) THEN 102 ELSE 98]

\* C12: after a lookup directive the lookup order is exactly the sequence of
\* its file and bind tokens, with nothing left of the order before it.
C12_LookupReplaced ==
    IsDirective(DNS_RESCONF_LOOKUP) => CStr(conf.resconf.lookup) = Take(LookupTokens, LookupLen)

\* C13: a nameserver directive with a valid address appends that address with
\* port 53 behind the nameservers the configuration holds, and leaves the list
\* as it was once the configuration holds NameserverMax of them.
C13_NameserverAppended ==
    (IsDirective(DNS_RESCONF_NAMESERVER)
        /\ dns_inet_pton(AddressFamily(conf.words[2]), conf.words[2]).ret = 1)
    => Nameservers(conf.resconf, 0) =
          IF Len(Nameservers(conf.pre, 0)) < NameserverMax
          THEN Append(Nameservers(conf.pre, 0), StoreAddress(NoAddress, conf.words[2], 53))
          ELSE Nameservers(conf.pre, 0)

(***************************************************************************)
(* The reference count of a resolver-configuration or hints handle.        *)
(* dns_atomic_inc and dns_atomic_dec are a plain post-increment and        *)
(* post-decrement of the counter: a load and a store of the new value,     *)
(* which the steps of other threads may separate.  A load from a freed     *)
(* object gives any value.                                                 *)
(***************************************************************************)
NThreads == 2
MaxRefOps == 6

\* the value returned and the value stored, from the value loaded
dns_atomic_inc(i) == [ret |-> i, val |-> i + 1]

DecAfter(i) == [ret |-> i - 1, val |-> i - 1]
dns_atomic_dec(i) == [ret |-> i, val |-> i - 1]

\* dns_resconf_close, dns_hints_close: the number of times the object has
\* been freed, given the value the release returned
CloseFrees(freed, ret) == IF 1 # ret THEN freed ELSE freed + 1

\* ref: the kind of handle, the number of threads using it, the counter, the
\* number of times it was freed, and per thread the call in progress, the
\* value it loaded and the references it holds; log is the calls returned
RefOpen(kind, n) ==
    [kind |-> kind, n |-> n,
     refcount |-> dns_atomic_inc(0).val, freed |-> 0,
     pc |-> [t \in 1..NThreads |-> "idle"],
     reg |-> [t \in 1..NThreads |-> 0],
     holds |-> [t \in 1..NThreads |-> IF t = 1 THEN 1 ELSE 0],
     log |-> <<>>]

RefInit(n) ==
    /\ \E kind \in {"resconf", "hints"} : ref = RefOpen(kind, n)
    /\ conf = ConfIdle /\ hints = HintsIdle
    /\ rc = RcIdle /\ srch = SrchIdle
    /\ P = PIdle /\ log = <<>> /\ last = LastIdle
    /\ X = XIdle /\ xp = XpIdle /\ xs = XsIdle

\* one thread: the calls run one after the other
InitRef == RefInit(1)

\* several threads
InitRefThreads == RefInit(NThreads)

\* thread t enters acquire or release and loads the counter
RefLoad(t, call) ==
    /\ t <= ref.n
    /\ ref.pc[t] = "idle"
    /\ ref.holds[t] > 0
    /\ Len(ref.log) + Cardinality({u \in 1..NThreads : ref.pc[u] # "idle"}) < MaxRefOps
    /\ \E v \in (IF ref.freed = 0 THEN {ref.refcount} ELSE {0, 1, ref.refcount}) :
          ref' = [ref EXCEPT !.pc[t] = call, !.reg[t] = v]
    /\ UNCHANGED <<pvars, xvars, svars, cvars, hvars>>

\* dns_resconf_acquire, dns_hints_acquire: thread t stores the incremented
\* value; the reference is for thread u
Acquire(t, u) ==
    /\ ref.pc[t] = "acquire"
    /\ u <= ref.n
    /\ ref' = [ref EXCEPT !.pc[t] = "idle",
                          !.refcount = dns_atomic_inc(ref.reg[t]).val,
                          !.holds[u] = @ + 1,
                          !.log = Append(@, [op |-> "acquire", t |-> t,
                                             ret |-> dns_atomic_inc(ref.reg[t]).ret])]
    /\ UNCHANGED <<pvars, xvars, svars, cvars, hvars>>

\* dns_resconf_close, dns_hints_close: thread t stores the decremented value
\* and frees the object when the release returned 1
Close(t) ==
    /\ ref.pc[t] = "close"
    /\ ref' = [ref EXCEPT !.pc[t] = "idle",
                          !.refcount = dns_atomic_dec(ref.reg[t]).val,
                          !.freed = CloseFrees(@, dns_atomic_dec(ref.reg[t]).ret),
                          !.holds[t] = @ - 1,
                          !.log = Append(@, [op |-> "close", t |-> t,
                                             ret |-> dns_atomic_dec(ref.reg[t]).ret])]
    /\ UNCHANGED <<pvars, xvars, svars, cvars, hvars>>

NextRef ==
    \E t \in 1..NThreads :
        \/ RefLoad(t, "acquire")
        \/ RefLoad(t, "close")
        \/ \E u \in 1..NThreads : Acquire(t, u)
        \/ Close(t)

SpecRef == InitRef /\ [][NextRef]_vars

SpecRefThreads == InitRefThreads /\ [][NextRef]_vars

\* the number of calls of op among the first n calls returned
RECURSIVE RefCalls(_, _)
RefCalls(op, n) ==
    IF n = 0 THEN 0
    ELSE RefCalls(op, n - 1) + (IF ref.log[n].op = op THEN 1 ELSE 0)

\* C14: with the calls made one after the other, acquire and release return
\* the count before their change (one for the open, plus the acquires, less
\* the closes before), and the object is freed by the close that follows as
\* many closes as there were acquires, and by no other.
C14_LastCloseFrees ==
    /\ \A i \in 1..Len(ref.log) :
          ref.log[i].ret = 1 + RefCalls("acquire", i - 1) - RefCalls("close", i - 1)
    /\ ref.freed = IF RefCalls("close", Len(ref.log)) = RefCalls("acquire", Len(ref.log)) + 1
                   THEN 1 ELSE 0

C14_Witness ==
    /\ ref.freed = 1
    /\ RefCalls("acquire", Len(ref.log)) >= 2
    /\ ref.log[2].op = "close"

RefQuiet == \A t \in 1..NThreads : ref.pc[t] = "idle"

\* the references held by the threads 1..t
RECURSIVE RefHeld(_)
RefHeld(t) == IF t = 0 THEN 0 ELSE ref.holds[t] + RefHeld(t - 1)

\* C15: with several threads, no increment or decrement is lost: between the
\* calls the counter is the number of references held, and when every
\* reference has been closed the object has been freed once; it is never
\* freed twice.
C15_NoLostUpdate ==
    /\ ref.freed <= 1
    /\ (RefQuiet /\ ref.freed = 0) =>
          ref.refcount = RefHeld(NThreads)
    /\ (RefQuiet /\ RefHeld(NThreads) = 0) => ref.freed = 1

(***************************************************************************)
(* The hints database.  A node of the zone list is its index in the heap   *)
(* of allocated nodes, 0 the null pointer.  A socket address is a number;  *)
(* two addresses are equal octet by octet when the numbers are equal.  An  *)
(* unsigned value above 2^31 - 1 is held as the negative integer congruent *)
(* to it modulo 2^32: -1 is the largest unsigned value.                    *)
(***************************************************************************)
UINT_MAX == -1
SlotsMax == 16
LossCap == 60
LossStep == 3
RandomMask == 255

\* a <= b and a + 1 on unsigned values
ULe(a, b) == IF (a >= 0) = (b >= 0) THEN a <= b ELSE b < 0
UInc(a) == IF a = UINT_MAX THEN 0 ELSE a + 1

NoSlot == [ss |-> 0, saved |-> 0, effective |-> 0, ttl |-> 0, nlost |-> 0]

soa_initializer ==
    [zone |-> <<>>, addrs |-> [i \in 1..SlotsMax |-> NoSlot], count |-> 0, next |-> 0]

\* the database dns_hints_open returns
H_initializer == [head |-> 0, heap |-> <<>>]

\* the loop of dns_hints_fetch from the node soa on
RECURSIVE FetchFrom(_, _, _)
FetchFrom(H, zone, soa) ==
    IF soa = 0 THEN 0
    ELSE IF StrCaseEq(zone, H.heap[soa].zone) THEN soa
    ELSE FetchFrom(H, zone, H.heap[soa].next)

dns_hints_fetch(H, zone) == FetchFrom(H, zone, H.head)

\* the new node of dns_hints_insert: allocated, named, its next set to the
\* head, and the head set to the node's next
InsertNode(H, zone) ==
    [head |-> H.head,
     heap |-> Append(H.heap, [soa_initializer EXCEPT !.zone = zone, !.next = H.head])]

\* an insert that counts on when every slot is taken
InsertSlotGrow(H, soa, sa, priority) ==
    [H EXCEPT !.heap[soa] =
        [@ EXCEPT !.addrs[(H.heap[soa].count % SlotsMax) + 1] =
                      [@ EXCEPT !.ss = sa,
                                !.effective = IF priority = 0 THEN 1 ELSE priority,
                                !.saved = IF priority = 0 THEN 1 ELSE priority],
                  !.count = @ + 1]]

\* the slot count % lengthof(addrs) of the node soa takes the address
InsertSlot(H, soa, sa, priority) ==
    [H EXCEPT !.heap[soa] =
        [@ EXCEPT !.addrs[(H.heap[soa].count % SlotsMax) + 1] =
                      [@ EXCEPT !.ss = sa,
                                !.effective = IF priority = 0 THEN 1 ELSE priority,
                                !.saved = IF priority = 0 THEN 1 ELSE priority],
                  !.count = IF @ < SlotsMax THEN @ + 1 ELSE @]]

dns_hints_insert(H, zone, sa, priority) ==
    IF dns_hints_fetch(H, zone) = 0
    THEN InsertSlot(InsertNode(H, zone), Len(H.heap) + 1, sa, priority)
    ELSE InsertSlot(H, dns_hints_fetch(H, zone), sa, priority)

DeadlineNever(ttl, now) == FALSE
DeadlinePast(ttl, now) == ttl > 0 /\ ttl < now

SlotReset(slot) == [slot EXCEPT !.effective = slot.saved, !.ttl = 0, !.nlost = 0]

\* an update whose deadline does not grow with the losses
UpdateSlotFlat(slot, sa, nice, now) ==
    IF slot.ss = sa
    THEN IF nice < 0
         THEN [slot EXCEPT !.nlost = @ + 1, !.effective = 0, !.ttl = now + LossStep]
         ELSE IF nice > 0 THEN SlotReset(slot)
         ELSE slot
    ELSE IF DeadlinePast(slot.ttl, now) THEN SlotReset(slot)
    ELSE slot

\* the body of the loop of dns_hints_update for one slot
UpdateSlot(slot, sa, nice, now) ==
    IF slot.ss = sa
    THEN IF nice < 0
         THEN [slot EXCEPT !.nlost = @ + 1, !.effective = 0,
                           !.ttl = now + Min(LossCap, LossStep * (slot.nlost + 1))]
         ELSE IF nice > 0 THEN SlotReset(slot)
         ELSE slot
    ELSE IF DeadlinePast(slot.ttl, now) THEN SlotReset(slot)
    ELSE slot

UpdateNode(node, sa, nice, now) ==
    [node EXCEPT !.addrs = [i \in 1..SlotsMax |->
                               IF i <= node.count THEN UpdateSlot(@[i], sa, nice, now)
                               ELSE @[i]]]

dns_hints_update(H, zone, sa, nice, now) ==
    IF dns_hints_fetch(H, zone) = 0 THEN H
    ELSE [H EXCEPT !.heap[dns_hints_fetch(H, zone)] = UpdateNode(@, sa, nice, now)]

\* the iterator dns_hints_i_init leaves, for the zone
dns_hints_i_init(zone) == [zone |-> zone, priority |-> 0, p |-> 0, end |-> 0]

\* the scan of the ring from p to end for a slot of the priority
RECURSIVE RingScan(_, _)
RingScan(i, soa) ==
    IF ~(i.p < i.end) THEN [i |-> i, j |-> -1]
    ELSE IF soa.addrs[(i.p % soa.count) + 1].effective = i.priority
         THEN [i |-> [i EXCEPT !.p = @ + 1], j |-> i.p % soa.count]
    ELSE RingScan([i EXCEPT !.p = @ + 1], soa)

\* the scan for the next priority: the slots from j on
RECURSIVE NextPriority(_, _, _, _, _)
NextPriority(soa, j, min, max, r) ==
    IF j >= soa.count THEN r
    ELSE IF ULe(min, soa.addrs[j + 1].effective) /\ ULe(soa.addrs[j + 1].effective, max)
         THEN NextPriority(soa, j + 1, min, soa.addrs[j + 1].effective,
                           [priority |-> soa.addrs[j + 1].effective, found |-> 1])
    ELSE NextPriority(soa, j + 1, min, max, r)

\* dns_hints_i_ffwd with rnd the value dns_random returns
RECURSIVE dns_hints_i_ffwd(_, _, _)
FfwdNext(s, soa, rnd, n) ==
    IF s.j # -1 THEN s
    ELSE IF n.found = 1
         THEN dns_hints_i_ffwd([s.i EXCEPT !.priority = n.priority, !.p = rnd % (RandomMask + 1),
                                           !.end = (rnd % (RandomMask + 1)) + soa.count],
                               soa, rnd)
    ELSE [i |-> [s.i EXCEPT !.priority = n.priority, !.p = rnd % (RandomMask + 1),
                            !.end = (rnd % (RandomMask + 1)) + soa.count],
          j |-> -1]

FfwdScanned(s, soa, rnd) ==
    FfwdNext(s, soa, rnd,
             NextPriority(soa, 0, UInc(s.i.priority), UINT_MAX,
                          [priority |-> UInc(s.i.priority), found |-> 0]))

dns_hints_i_ffwd(i, soa, rnd) == FfwdScanned(RingScan(i, soa), soa, rnd)

\* the loop of dns_hints_grep: g holds the iterator, the slots yielded and
\* whether dns_hints_i_ffwd has returned -1
RECURSIVE GrepLoop(_, _, _, _)
GrepYield(g, lim, soa, rnds, s) ==
    IF s.j = -1 THEN [i |-> s.i, out |-> g.out, end |-> TRUE]
    ELSE GrepLoop([i |-> s.i, out |-> Append(g.out, s.j), end |-> FALSE], lim, soa, Tail(rnds))

GrepLoop(g, lim, soa, rnds) ==
    IF ~(Len(g.out) < lim) THEN g
    ELSE GrepYield(g, lim, soa, rnds, dns_hints_i_ffwd(g.i, soa, Head(rnds)))

dns_hints_grep(lim, i, H, rnds) ==
    IF dns_hints_fetch(H, i.zone) = 0 THEN [i |-> i, out |-> <<>>, end |-> TRUE]
    ELSE GrepLoop([i |-> i, out |-> <<>>, end |-> FALSE], lim,
                  H.heap[dns_hints_fetch(H, i.zone)], rnds)

(***************************************************************************)
(* The calls on one database, with the clock and one iterator.             *)
(***************************************************************************)
MaxInserts == 3
MaxUpdates == 2
MaxTicks == 1
MaxYield == 4
MaxLim == 2

ZRoot == <<46>>
ZOther == <<97, 46>>

\* the arguments of the dns_hints_insert calls
HintInputs ==
    { [zone |-> ZRoot, sa |-> 1, priority |-> 1],
      [zone |-> ZRoot, sa |-> 2, priority |-> 2],
      [zone |-> ZRoot, sa |-> 3, priority |-> 3],
      [zone |-> ZRoot, sa |-> 2, priority |-> UINT_MAX],
      [zone |-> ZOther, sa |-> 1, priority |-> 0] }

Offsets == {0, 1, RandomMask}
Ticks == {LossStep, LossStep + 1, LossCap}

\* hints: the database H, the clock now and the number of its advances, the
\* iterator it, the slots it yielded since dns_hints_i_init, whether it has
\* ended, whether the database is as it was at dns_hints_i_init (an insert or
\* update ends the use of the iterator), the inserts made, the number of
\* updates, the last call and, of an update, the database before it
HintsInit(H) ==
    /\ hints = [H |-> H, now |-> 1, ticks |-> 0,
                it |-> dns_hints_i_init(ZRoot), out |-> <<>>, end |-> FALSE, valid |-> FALSE,
                ins |-> <<>>, nupd |-> 0, op |-> [call |-> "open"], pre |-> H_initializer]
    /\ conf = ConfIdle /\ ref = RefIdle
    /\ rc = RcIdle /\ srch = SrchIdle
    /\ P = PIdle /\ log = <<>> /\ last = LastIdle
    /\ X = XIdle /\ xp = XpIdle /\ xs = XsIdle

\* the database dns_hints_open returns
InitHints == HintsInit(H_initializer)

\* a database whose zone list holds a node for the root zone
InitZone ==
    HintsInit([head |-> 1, heap |-> <<[soa_initializer EXCEPT !.zone = ZRoot]>>])

HInsert(a) ==
    /\ Len(hints.ins) < MaxInserts
    /\ hints' = [hints EXCEPT !.H = dns_hints_insert(@, a.zone, a.sa, a.priority),
                              !.ins = Append(@, a),
                              !.it = dns_hints_i_init(ZRoot), !.out = <<>>,
                              !.end = FALSE, !.valid = FALSE,
                              !.op = [call |-> "insert", zone |-> a.zone, sa |-> a.sa],
                              !.pre = H_initializer]
    /\ UNCHANGED <<pvars, xvars, svars, cvars, rvars>>

HUpdate(zone, sa, nice) ==
    /\ hints.nupd < MaxUpdates
    /\ hints' = [hints EXCEPT !.H = dns_hints_update(@, zone, sa, nice, hints.now),
                              !.nupd = @ + 1,
                              !.it = dns_hints_i_init(ZRoot), !.out = <<>>,
                              !.end = FALSE, !.valid = FALSE,
                              !.op = [call |-> "update", zone |-> zone, sa |-> sa,
                                      nice |-> nice],
                              !.pre = hints.H]
    /\ UNCHANGED <<pvars, xvars, svars, cvars, rvars>>

\* time passes: the next dns_now returns d more
HTick(d) ==
    /\ hints.ticks < MaxTicks
    /\ hints' = [hints EXCEPT !.now = @ + d, !.ticks = @ + 1,
                              !.op = [call |-> "tick"], !.pre = H_initializer]
    /\ UNCHANGED <<pvars, xvars, svars, cvars, rvars>>

HIterInit(zone) ==
    /\ hints' = [hints EXCEPT !.it = dns_hints_i_init(zone), !.out = <<>>, !.end = FALSE,
                              !.valid = TRUE, !.op = [call |-> "init"],
                              !.pre = H_initializer]
    /\ UNCHANGED <<pvars, xvars, svars, cvars, rvars>>

HGrepReturn(g) ==
    hints' = [hints EXCEPT !.it = g.i, !.out = @ \o g.out, !.end = g.end,
                           !.op = [call |-> "grep"], !.pre = H_initializer]

HGrep(lim, rnds) ==
    /\ hints.valid
    /\ ~hints.end
    /\ Len(hints.out) + lim <= MaxYield
    /\ HGrepReturn(dns_hints_grep(lim, hints.it, hints.H, rnds))
    /\ UNCHANGED <<pvars, xvars, svars, cvars, rvars>>

NextHints ==
    \/ \E a \in HintInputs : HInsert(a)
    \/ \E sa \in 1..2, nice \in {-1, 0, 1} : HUpdate(ZRoot, sa, nice)
    \/ \E d \in Ticks : HTick(d)
    \/ \E zone \in {ZRoot, ZOther} : HIterInit(zone)
    \/ \E lim \in 1..MaxLim, rnds \in [1..MaxLim -> Offsets] : HGrep(lim, rnds)

SpecHints == InitHints /\ [][NextHints]_vars

SpecZone == InitZone /\ [][NextHints]_vars

\* the node the iterator's zone is found at, and the effective priority of
\* its slot at C index j
ItNode == dns_hints_fetch(hints.H, hints.it.zone)
Effective(j) == hints.H.heap[ItNode].addrs[j + 1].effective

\* C16: after dns_hints_insert the zone's node is reachable from the head:
\* dns_hints_fetch finds it, no second node is allocated for the zone, and a
\* full iteration over the zone yields a slot.
C16_InsertedZoneReachable ==
    \A k \in 1..Len(hints.ins) :
        /\ dns_hints_fetch(hints.H, hints.ins[k].zone) # 0
        /\ Cardinality({n \in 1..Len(hints.H.heap) :
                           StrCaseEq(hints.H.heap[n].zone, hints.ins[k].zone)}) = 1
        /\ (hints.valid /\ hints.end /\ StrCaseEq(hints.it.zone, hints.ins[k].zone))
              => hints.out # <<>>

PastDeadline ==
    IF hints.op.call # "update" \/ dns_hints_fetch(hints.pre, hints.op.zone) = 0 THEN {}
    ELSE { i \in 1..hints.pre.heap[dns_hints_fetch(hints.pre, hints.op.zone)].count :
             LET slot == hints.pre.heap[dns_hints_fetch(hints.pre, hints.op.zone)].addrs[i]
             IN  /\ slot.ss # hints.op.sa
                 /\ slot.effective = 0 /\ slot.ttl > 0
                 /\ slot.ttl < hints.now }

\* C19: an update for another address, made when the clock is past the
\* deadline of a slot marked failed, sets the slot's effective priority to
\* its saved priority and its deadline and loss counter to 0.
C19_PastDeadlineReset ==
    \A i \in PastDeadline :
        LET slot == hints.H.heap[dns_hints_fetch(hints.pre, hints.op.zone)].addrs[i]
        IN  slot.effective = slot.saved /\ slot.saved # 0 /\ slot.ttl = 0 /\ slot.nlost = 0

C19_Witness == PastDeadline # {} /\ hints.op.sa = 2

\* the three hints of the scenario, in the order inserted
ThreeHints == <<[zone |-> ZRoot, sa |-> 1, priority |-> 1],
                [zone |-> ZRoot, sa |-> 2, priority |-> 2],
                [zone |-> ZRoot, sa |-> 3, priority |-> 3]>>

\* C20: with the hints 1, 2, 3 inserted for ".", a full iteration yields
\* three slots; with the priority-1 slot marked failed it begins with the
\* priority-2 slot, and 60 seconds after the mark with the priority-1 slot.
C20_ThreeHintsScenario ==
    (hints.ins = ThreeHints /\ hints.valid /\ hints.end /\ hints.it.zone = ZRoot) =>
        /\ ItNode # 0
        /\ LET a == hints.H.heap[ItNode].addrs IN
              /\ hints.nupd = 0 => Len(hints.out) = 3
              /\ (a[1].effective = 0 /\ a[1].nlost = 1 /\ a[2].effective = 2 /\ a[3].effective = 3)
                    => /\ hints.out # <<>>
                       /\ hints.out[1] = IF hints.now >= a[1].ttl - LossStep + LossCap
                                         THEN 0 ELSE 1

\* ---------------------------------------------------------------------------
\* dns_txt_push and dns_txt_parse on a packet with room for long texts

TxtRooms == {3, 270, 320}

\* the payload lengths tried: empty, short, one full chunk, and the lengths
\* beyond one chunk
TxtLens == {0, 1, 44, 255, 256, 300}

\* a text of L octets
Text(L) == [i \in 1..L |-> 1 + (i % 7)]

TxtReq(L) == Req(DNS_S_AN, <<>>, DNS_T_TXT, NoTtl, [NoAny EXCEPT !.octets = Text(L)])

InitTxt ==
    /\ PacketInit({ PacketDataOffset + 12 + room : room \in TxtRooms })
    /\ X = XIdle /\ xp = XpIdle /\ xs = XsIdle
    /\ rc = RcIdle /\ srch = SrchIdle
    /\ conf = ConfIdle /\ ref = RefIdle /\ hints = HintsIdle

TxtReturn(r, L) ==
    /\ P' = r.P
    /\ last' = [calls |-> last.calls + 1, req |-> TxtReq(L), error |-> r.error,
                step |-> "txt", pre |-> P]
    /\ UNCHANGED log

\* one dns_txt_push call at P->end
TxtPush(L) ==
    /\ last.calls < MaxPush
    /\ TxtReturn(dns_txt_push(P, TxtReq(L).any), L)
    /\ UNCHANGED <<xvars, svars, cvars, rvars, hvars>>

NextTxt == \E L \in TxtLens : TxtPush(L)

SpecTxt == InitTxt /\ [][NextTxt]_vars

\* the octets the last dns_txt_push call wrote
TxtWritten == SubSeq(P.data, last.pre.end + 1, P.end)

\* the length octets of the chunks that start at index p of an rdata
RECURSIVE ChunkLens(_, _)
ChunkLens(rd, p) ==
    IF p > Len(rd) THEN <<>> ELSE <<rd[p]>> \o ChunkLens(rd, p + 1 + rd[p])

\* the chunks a text of L octets takes when each holds at most 255 octets
ChunksOf(L) == (L + 254) \div 255

\* C21: a text of any length that fits the packet is pushed with success,
\* as consecutive chunks of at most 255 octets behind the rdlength field,
\* and dns_txt_parse of the record returns the text.
C21_LongTextRoundTrip ==
    LET L == Len(last.req.any.octets)
        rr == [rd |-> [p |-> last.pre.end + 2, len |-> P.end - last.pre.end - 2]]
    IN  (last.step = "txt"
           /\ last.pre.size - last.pre.end >= 2 + L + ChunksOf(L)) =>
          /\ last.error = 0
          /\ \A k \in DOMAIN ChunkLens(TxtWritten, 3) : ChunkLens(TxtWritten, 3)[k] <= 255
          /\ dns_txt_parse(rr, P) = [error |-> 0, any |-> last.req.any]

\* ---------------------------------------------------------------------------
\* dns_rr_copy, and the copy loop of parse_packet

\* rr->ttl as the top octet and the low 24 bits dns_p_push takes
TtlOf(n) == [hi |-> n \div 16777216, lo |-> n % 16777216]

\* behind the dns_d_expand call, which returned e
CopyPush(e, Pk, rr, a) ==
    IF a.error # 0 THEN [P |-> Pk, error |-> a.error, step |-> "parse"]
    ELSE dns_p_push(Pk, rr.section, Take(e.text, e.ret), rr.type, rr.class,
                    TtlOf(rr.ttl), a.any)

CopyExpanded(e, Pk, rr, Q) ==
    IF e.ret = 0 THEN [P |-> Pk, error |-> e.error, step |-> "expand"]
    ELSE IF e.ret >= DNS_D_MAXNAME + 1 THEN [P |-> Pk, error |-> -1, step |-> "expand"]
    ELSE CopyPush(e, Pk, rr,
                  IF rr.section # DNS_S_QD THEN dns_any_parse(rr, Q)
                  ELSE [error |-> 0, any |-> NoAny])

dns_rr_copy(Pk, rr, Q) ==
    CopyExpanded(dns_d_expand(DNS_D_MAXNAME + 1, rr.dn.p, Q), Pk, rr, Q)

\* the data octets of the packets parse_packet allocates with dns_p_new
CopyRoom == 512

\* an uncompressed name in wire format, from its labels
RECURSIVE WireName(_)
WireName(labels) ==
    IF labels = <<>> THEN <<0>>
    ELSE <<Len(Head(labels))>> \o Head(labels) \o WireName(Tail(labels))

WireRecord(section, labels, type, ttl, rdata) ==
    [section |-> section,
     octets |-> WireName(labels) \o Be16(type) \o Be16(DNS_C_IN)
                \o (IF section = DNS_S_QD THEN <<>>
                    ELSE <<0, 0>> \o Be16(ttl) \o Be16(Len(rdata)) \o rdata)]

\* the records the source packets are made of: the names "a.c", "b.b", "a.b"
\* and "b" with an address, a text of two chunks, a mail exchanger and a name
\* server
SourceQuestions ==
    { WireRecord(DNS_S_QD, <<<<97>>, <<99>>>>, DNS_T_A, 0, <<>>),
      WireRecord(DNS_S_QD, <<<<98>>, <<98>>>>, DNS_T_MX, 0, <<>>) }

SourceRecords ==
    << WireRecord(DNS_S_AN, <<<<97>>, <<99>>>>, DNS_T_A, 3600, <<1, 2, 3, 4>>),
       WireRecord(DNS_S_AN, <<<<98>>>>, DNS_T_TXT, 5, <<2, 104, 105, 1, 33>>),
       WireRecord(DNS_S_AN, <<<<98>>, <<98>>>>, DNS_T_MX, 5,
                  <<0, 10>> \o WireName(<<<<97>>, <<98>>>>)),
       WireRecord(DNS_S_NS, <<<<97>>, <<99>>>>, DNS_T_NS, 5, WireName(<<<<98>>, <<98>>>>)),
       WireRecord(DNS_S_AR, <<<<97>>, <<98>>>>, DNS_T_A, 5, <<5, 6, 7, 8>>) >>

\* the octets of the chosen records, in order, and how many lie in a section
RECURSIVE WireBody(_, _)
WireBody(chosen, i) ==
    IF i > Len(SourceRecords) THEN <<>>
    ELSE (IF i \in chosen THEN SourceRecords[i].octets ELSE <<>>) \o WireBody(chosen, i + 1)

WireCount(chosen, section) ==
    Cardinality({ i \in chosen : SourceRecords[i].section = section })

\* a well-formed packet: the header with the four counts, one question, and
\* the chosen records in section order, names written in full
WirePacket(q, chosen) ==
    LET data == <<0, 0, 0, 0, 0, 1>> \o Be16(WireCount(chosen, DNS_S_AN))
                \o Be16(WireCount(chosen, DNS_S_NS)) \o Be16(WireCount(chosen, DNS_S_AR))
                \o q.octets \o WireBody(chosen, 1)
    IN  [data |-> data, end |-> Len(data)]

SourcePackets ==
    { WirePacket(q, chosen) : q \in SourceQuestions, chosen \in SUBSET DOMAIN SourceRecords }

InitCopy ==
    /\ X \in SourcePackets
    /\ PacketInit({PacketDataOffset + CopyRoom})
    /\ xs = [state |-> RRIStart, errors |-> <<>>, done |-> FALSE]
    /\ xp = XpIdle
    /\ rc = RcIdle /\ srch = SrchIdle
    /\ conf = ConfIdle /\ ref = RefIdle /\ hints = HintsIdle

\* behind the dns_rr_copy call of one pass of the loop
CopyReturn(c, state) ==
    /\ P' = c.P
    /\ xs' = [xs EXCEPT !.state = state, !.errors = Append(@, c.error)]

\* behind the dns_rr_grep call that fetches the next record of the source
CopyFetched(g) ==
    IF g.rrs = <<>> THEN xs' = [xs EXCEPT !.state = g.state, !.done = TRUE] /\ UNCHANGED P
    ELSE CopyReturn(dns_rr_copy(P, g.rrs[1], X), g.state)

\* one pass of dns_rr_foreach in parse_packet: the next record of the source,
\* copied to the destination
CopyNext ==
    /\ ~xs.done
    /\ CopyFetched(dns_rr_grep(<<>>, 1, xs.state, NoFilter, X))
    /\ UNCHANGED <<log, last, X, xp, svars, cvars, rvars, hvars>>

NextCopy == CopyNext

SpecCopy == InitCopy /\ [][NextCopy]_vars

\* a record as the library reads it: section, expanded owner name, type, class,
\* TTL and decoded rdata
Decoded(rr, Pk) ==
    [section |-> rr.section, name |-> dns_d_expand(DNS_D_MAXNAME + 1, rr.dn.p, Pk).text,
     type |-> rr.type, class |-> rr.class, ttl |-> rr.ttl,
     any |-> IF rr.section = DNS_S_QD THEN NoAny ELSE dns_any_parse(rr, Pk).any]

DecodedAll(rrs, Pk) == [i \in DOMAIN rrs |-> Decoded(rrs[i], Pk)]

RecordsOf(Pk) == DecodedAll(dns_rr_grep(<<>>, 32, RRIStart, NoFilter, Pk).rrs, Pk)

\* C22: when every record of a well-formed packet has been copied in
\* iteration order into a fresh packet with room for all of them, every
\* dns_rr_copy call has returned 0 and the copy holds records with the same
\* section, expanded owner name, type, class, TTL and decoded rdata.
C22_CopyPreservesRecords ==
    xs.done =>
        /\ \A k \in DOMAIN xs.errors : xs.errors[k] = 0
        /\ RecordsOf(P) = RecordsOf(X)

\* ---------------------------------------------------------------------------
\* dns_d_anchor, dns_d_cleave and dns_d_expand with the destination buffer
\* and its limit.  dst holds the octets the call has written, from index 0 on;
\* it is empty when the call wrote nothing.

\* dst[MIN(lim - 1, len)] = '\0' when lim > 0
NulEnd(dst, lim, len) == IF lim > 0 THEN SetAt(dst, Min(lim - 1, len), 0) ELSE dst

\* behind the memmove of dns_d_anchor, which left dst
AnchorDot(dst, lim, src) ==
    IF src[Len(src)] # 46
    THEN [ret |-> Len(src) + 1,
          dst |-> NulEnd(IF Len(src) < lim THEN SetAt(dst, Len(src), 46) ELSE dst,
                         lim, Len(src) + 1)]
    ELSE [ret |-> Len(src), dst |-> NulEnd(dst, lim, Len(src))]

AnchorInto(lim, src) ==
    IF Len(src) = 0 THEN [ret |-> 0, dst |-> <<>>]
    ELSE AnchorDot(Take(src, Min(lim, Len(src))), lim, src)

\* behind the memchr of dns_d_cleave, which found the dot at C index dot
CleaveFrom(lim, src, dot) ==
    LET rest == IF Len(src) - dot > 1 THEN SubSeq(src, dot + 2, Len(src))
                ELSE SubSeq(src, dot + 1, Len(src))
    IN  [ret |-> Len(rest), dst |-> NulEnd(Take(rest, Min(lim, Len(rest))), lim, Len(rest))]

\* a cleave that strips nothing
CleaveNothing(lim, src) ==
    [ret |-> Len(src), dst |-> NulEnd(Take(src, Min(lim, Len(src))), lim, Len(src))]

CleaveInto(lim, src) ==
    IF Len(src) = 0 \/ InnerDot(src, 1) < 0 THEN [ret |-> 0, dst |-> <<>>]
    ELSE CleaveFrom(lim, src, InnerDot(src, 1))

\* the largest limit tried
MaxLimit == 5

\* the names handed to dns_d_anchor and dns_d_cleave: "", "a", ".", "a.",
\* "a.b", "ab.c." and ".a"
BufNames ==
    { <<>>, <<97>>, <<46>>, <<97, 46>>, <<97, 46, 98>>, <<97, 98, 46, 99, 46>>, <<46, 97>> }

BufIdle == [op |-> "none", lim |-> 0, src |-> <<>>, ret |-> 0, error |-> 0, dst |-> <<>>]

InitBuf ==
    /\ X \in ExpandPackets
    /\ xs = BufIdle
    /\ xp = XpIdle
    /\ P = PIdle /\ log = <<>> /\ last = LastIdle
    /\ rc = RcIdle /\ srch = SrchIdle
    /\ conf = ConfIdle /\ ref = RefIdle /\ hints = HintsIdle

BufReturn(op, lim, src, r) ==
    /\ xs = BufIdle
    /\ xs' = [op |-> op, lim |-> lim, src |-> src, ret |-> r.ret, error |-> 0, dst |-> r.dst]
    /\ UNCHANGED <<X, xp, pvars, svars, cvars, rvars, hvars>>

\* dns_d_anchor(dst, lim, src, len)
BufAnchor(lim, src) == BufReturn("anchor", lim, src, AnchorInto(lim, src))

\* dns_d_cleave(dst, lim, src, len)
BufCleave(lim, src) == BufReturn("cleave", lim, src, CleaveInto(lim, src))

ExpandReturn(lim, src, st) ==
    /\ xs = BufIdle
    /\ st.error # -2
    /\ xs' = [op |-> "expand", lim |-> lim, src |-> <<src>>, ret |-> st.ret,
              error |-> st.error, dst |-> st.dst]
    /\ UNCHANGED <<X, xp, pvars, svars, cvars, rvars, hvars>>

\* dns_d_expand(dst, lim, src, X, &error), for the calls that return
BufExpand(lim, src) ==
    ExpandReturn(lim, src, ExpandRun(ExpandStart(src), X.data, X.end, lim, 2 * X.end + 2))

NextBuf ==
    \E lim \in 0..MaxLimit :
        \/ \E src \in BufNames : BufAnchor(lim, src) \/ BufCleave(lim, src)
        \/ \E src \in TailAt..(X.end - 1) : BufExpand(lim, src)

SpecBuf == InitBuf /\ [][NextBuf]_vars

\* C23: a call of dns_d_anchor, dns_d_cleave or dns_d_expand writes no octet
\* at an index >= lim, and with lim > 0 it has written a NUL at index
\* min(value returned, lim - 1).
C23_OutputWithinLimit ==
    xs.op # "none" =>
        /\ Len(xs.dst) <= xs.lim
        /\ xs.lim > 0 =>
              /\ Min(xs.ret, xs.lim - 1) < Len(xs.dst)
              /\ xs.dst[Min(xs.ret, xs.lim - 1) + 1] = 0

\* ---------------------------------------------------------------------------
\* The loop of parse_domain: dns_d_cleave applied to the anchored name, in
\* place, until it returns 0

\* the applications watched
MaxCleaves == 9

NameLen == 6

\* every name of at most NameLen characters made of "a" and "."
CleaveNames == UNION { [1..n -> {97, 46}] : n \in 0..NameLen }

CleaveIdle == [name |-> <<>>, dn |-> <<>>, before |-> <<>>, n |-> 0, ret |-> -1]

InitCleave ==
    /\ \E N \in CleaveNames : xs = [CleaveIdle EXCEPT !.name = N, !.dn = dns_d_anchor(N)]
    /\ X = XIdle /\ xp = XpIdle
    /\ P = PIdle /\ log = <<>> /\ last = LastIdle
    /\ rc = RcIdle /\ srch = SrchIdle
    /\ conf = ConfIdle /\ ref = RefIdle /\ hints = HintsIdle

\* behind the call: dn is left as it was when nothing was written
CleaveReturn(r) ==
    xs' = [xs EXCEPT !.dn = IF r.dst = <<>> THEN xs.dn ELSE CStr(r.dst),
                     !.before = xs.dn, !.n = xs.n + 1, !.ret = r.ret]

\* dns_d_cleave(dn, strlen(dn) + 1, dn, strlen(dn)), while the last call did
\* not return 0
CleaveNext ==
    /\ xs.ret # 0
    /\ xs.n < MaxCleaves
    /\ CleaveReturn(CleaveInto(Len(xs.dn) + 1, xs.dn))
    /\ UNCHANGED <<X, xp, pvars, svars, cvars, rvars, hvars>>

NextCleave == CleaveNext

SpecCleave == InitCleave /\ [][NextCleave]_vars

\* the labels of a name: the dots of the anchored name behind its first
\* character, each of which ends a label
Labels(N) == Cardinality({ i \in 2..Len(dns_d_anchor(N)) : dns_d_anchor(N)[i] = 46 })

\* C24: dns_d_cleave applied again and again to anchor(N) returns 0 in one of
\* the first labels(N) + 1 applications, and every result of non-zero length
\* is strictly shorter than the name it was cleaved from.
C24_CleaveReachesZero ==
    /\ xs.n >= Labels(xs.name) + 1 => xs.ret = 0
    /\ xs.ret > 0 => (xs.ret = Len(xs.dn) /\ Len(xs.dn) < Len(xs.before))

\* "a.a.a" cleaved down to the root and past it
C24_Witness == xs.ret = 0 /\ xs.n = 4 /\ xs.name = <<97, 46, 97, 46, 97>>

\* ---------------------------------------------------------------------------
\* dns_rr_grep called again and again with lim = 1 on one iterator

\* the calls made on one iterator
MaxGrepCalls == 9

\* lengthof(rrset) in parse_packet: more than the records of any packet tried
GrepAll == 32

\* the source packets, whole or cut short at an offset
GrepPackets ==
    SourcePackets
    \cup { [data |-> Take(Q.data, e), end |-> e] :
             Q \in { WirePacket(q, DOMAIN SourceRecords) : q \in SourceQuestions },
             e \in {33, 52, 60} }

\* no filter, and filters by section, by type, by class and by name ("a.c.")
GrepFilters ==
    { NoFilter,
      [NoFilter EXCEPT !.section = DNS_S_AN],
      [NoFilter EXCEPT !.section = DNS_S_QD + DNS_S_AR],
      [NoFilter EXCEPT !.type = DNS_T_A],
      [NoFilter EXCEPT !.class = DNS_C_IN, !.type = 255],
      [NoFilter EXCEPT !.name = <<97, 46, 99, 46>>] }

InitGrep ==
    /\ X \in GrepPackets
    /\ \E flt \in GrepFilters :
          xs = [flt |-> flt, state |-> RRIStart, out |-> <<>>, calls |-> 0,
                zeros |-> 0, ended |-> FALSE, revived |-> FALSE]
    /\ xp = XpIdle
    /\ P = PIdle /\ log = <<>> /\ last = LastIdle
    /\ rc = RcIdle /\ srch = SrchIdle
    /\ conf = ConfIdle /\ ref = RefIdle /\ hints = HintsIdle

\* behind one call, which returned g
GrepReturn(g) ==
    xs' = [xs EXCEPT !.state = g.state, !.out = xs.out \o g.rrs, !.calls = xs.calls + 1,
                     !.zeros = IF g.rrs = <<>> THEN xs.zeros + 1 ELSE xs.zeros,
                     !.ended = xs.ended \/ (g.rrs = <<>> /\ ~(g.state.next < X.end)),
                     !.revived = xs.revived \/ (xs.ended /\ g.rrs # <<>>)]

\* dns_rr_grep(&rr, 1, i, X, &error); two more calls are made after a return of 0
GrepOne ==
    /\ xs.calls < MaxGrepCalls
    /\ xs.zeros < 3
    /\ GrepReturn(dns_rr_grep(<<>>, 1, xs.state, xs.flt, X))
    /\ UNCHANGED <<X, xp, pvars, svars, cvars, rvars, hvars>>

NextGrep == GrepOne

SpecGrep == InitGrep /\ [][NextGrep]_vars

\* the records of a single call on a fresh iterator with room for all of them
GrepWhole == dns_rr_grep(<<>>, GrepAll, RRIStart, xs.flt, X).rrs

\* C25: the records yielded by calls with lim = 1 on one iterator are, call
\* by call, the records of a single call on a fresh iterator with room for
\* all of them, in the same order, and all of them once a call has returned
\* 0; and after a call has returned 0 at the end of the packet every further
\* call returns 0.
C25_GrepOneByOne ==
    /\ xs.zeros = 0 => xs.out = Take(GrepWhole, xs.calls)
    /\ xs.zeros = 1 => xs.out = GrepWhole
    /\ ~xs.revived

\* three records came one by one through a filter, and calls went on past the end
C25_Witness ==
    /\ xs.ended /\ xs.zeros = 3 /\ Len(xs.out) = 3
    /\ xs.flt.type = DNS_T_A /\ xs.flt.class = 0

\* ---------------------------------------------------------------------------
\* What dns_hints_update does to the slots of the address it is called with

\* the node of the updated zone, before and after the call
UpdatedBefore == hints.pre.heap[dns_hints_fetch(hints.pre, hints.op.zone)]
UpdatedAfter == hints.H.heap[dns_hints_fetch(hints.pre, hints.op.zone)]

\* the slots of the updated zone that hold the address of the call
Matching == { i \in 1..UpdatedBefore.count : UpdatedBefore.addrs[i].ss = hints.op.sa }

RECURSIVE Filled(_)
Filled(n) ==
    IF n = 0 THEN [head |-> 1, heap |-> <<[soa_initializer EXCEPT !.zone = ZRoot]>>]
    ELSE dns_hints_insert(Filled(n - 1), ZRoot, 10 + n, n)

FillInputs ==
    { [zone |-> ZRoot, sa |-> 1, priority |-> 1],
      [zone |-> ZRoot, sa |-> 2, priority |-> UINT_MAX],
      [zone |-> ZRoot, sa |-> 3, priority |-> 0],
      [zone |-> ZOther, sa |-> 1, priority |-> 5] }

InitFill == \E n \in 0..SlotsMax : HintsInit(Filled(n))

\* one dns_hints_insert call; the database before it is kept
FInsert(a) ==
    /\ Len(hints.ins) < MaxInserts
    /\ hints' = [hints EXCEPT !.H = dns_hints_insert(@, a.zone, a.sa, a.priority),
                              !.ins = Append(@, a),
                              !.op = [call |-> "insert", zone |-> a.zone, sa |-> a.sa,
                                      priority |-> a.priority],
                              !.pre = hints.H]
    /\ UNCHANGED <<pvars, xvars, svars, cvars, rvars>>

NextFill == \E a \in FillInputs : FInsert(a)

SpecFill == InitFill /\ [][NextFill]_vars

\* the node the last insert wrote to (a new one when the zone was not found),
\* as it was before the call and as it is after it
InsertedAt ==
    IF dns_hints_fetch(hints.pre, hints.op.zone) = 0 THEN Len(hints.H.heap)
    ELSE dns_hints_fetch(hints.pre, hints.op.zone)

InsertedBefore ==
    IF dns_hints_fetch(hints.pre, hints.op.zone) = 0
    THEN [soa_initializer EXCEPT !.zone = hints.op.zone]
    ELSE hints.pre.heap[InsertedAt]

InsertedAfter == hints.H.heap[InsertedAt]

\* the slot at C index j holds the address and the priority of the last insert
HoldsInsert(j) ==
    /\ InsertedAfter.addrs[j + 1].ss = hints.op.sa
    /\ InsertedAfter.addrs[j + 1].saved = IF hints.op.priority = 0 THEN 1 ELSE hints.op.priority
    /\ InsertedAfter.addrs[j + 1].effective = InsertedAfter.addrs[j + 1].saved

\* C28: count <= 16 in every zone node; an insert into a node with count < 16
\* writes the slot numbered count and adds one to count; an insert into a node
\* with count = 16 writes slot 0 and leaves count and the address and
\* priorities of every other slot as they were.
C28_SlotsWrapAtSixteen ==
    /\ \A n \in DOMAIN hints.H.heap : hints.H.heap[n].count <= 16
    /\ hints.op.call = "insert" =>
          IF InsertedBefore.count < 16
          THEN HoldsInsert(InsertedBefore.count)
               /\ InsertedAfter.count = InsertedBefore.count + 1
          ELSE /\ HoldsInsert(0)
               /\ InsertedAfter.count = InsertedBefore.count
               /\ \A j \in 1..15 : InsertedAfter.addrs[j + 1] = InsertedBefore.addrs[j + 1]

\* the second insert into a full node
C28_Witness ==
    /\ hints.op.call = "insert" /\ InsertedBefore.count = 16
    /\ InsertedBefore.addrs[1].ss = 2 /\ hints.op.sa = 1

\* ---------------------------------------------------------------------------
\* dns_now.  last and tick are the two static sig_atomic_t variables, 32-bit
\* signed integers; a reading of the wall clock is a time_t, here one that is
\* not negative and below 2^31.

INT_MAX == 2147483647
INT_MIN == -INT_MAX - 1

\* tmp_tick += d for a positive d, the sum stored in 32 bits: one beyond
\* INT_MAX comes back reduced by 2^32
TickAdd(tick, d) ==
    IF tick > INT_MAX - d THEN (tick + INT_MIN) + (d + INT_MIN) ELSE tick + d

\* the statics after dns_now has read now from the wall clock; the value
\* returned is tick
dns_now(st, now) ==
    [last |-> now,
     tick |-> IF now > st.last THEN TickAdd(st.tick, now - st.last) ELSE st.tick]

\* the calls made
MaxNow == 4

\* the readings: the epoch, a second and an hour later, and dates of the years
\* 2004 and 2021
Readings == {0, 1, 3600, 1073741824, 1610612736}

NowIdle == [st |-> [last |-> 0, tick |-> 0], calls |-> 0, reading |-> 0, ret |-> 0,
            before |-> [last |-> 0, tick |-> 0]]

InitNow ==
    /\ xs = NowIdle
    /\ X = XIdle /\ xp = XpIdle
    /\ P = PIdle /\ log = <<>> /\ last = LastIdle
    /\ rc = RcIdle /\ srch = SrchIdle
    /\ conf = ConfIdle /\ ref = RefIdle /\ hints = HintsIdle

NowReturn(st, now) ==
    xs' = [st |-> st, calls |-> xs.calls + 1, reading |-> now, ret |-> st.tick,
           before |-> xs.st]

\* one dns_now call by the single caller, the wall clock reading now
Now(now) ==
    /\ xs.calls < MaxNow
    /\ NowReturn(dns_now(xs.st, now), now)
    /\ UNCHANGED <<X, xp, pvars, svars, cvars, rvars, hvars>>

NextNow == \E now \in Readings : Now(now)

SpecNow == InitNow /\ [][NextNow]_vars

\* C29: from the second call on, dns_now returns no less than the call before
\* it did, and the accumulator has grown by max(0, reading - previous reading).
C29_ClockNeverBack ==
    xs.calls >= 2 =>
        /\ xs.ret >= xs.before.tick
        /\ xs.st.tick - xs.before.tick
             = IF xs.reading > xs.before.last THEN xs.reading - xs.before.last ELSE 0

\* ---------------------------------------------------------------------------
\* dns_rr_parse at any offset of a packet of any octets

ParseIdle == [op |-> "none", src |-> 0, error |-> 0, rr |-> NoRR]

\* the offset of the names tried in front of the fields of a record
ParseAt == 8

\* packets of any octets at the end, and packets with three octets of any
\* kind at ParseAt, then zero octets up to an rdlength of 0, 1 or 2 and as many
\* octets of rdata or fewer
ParsePackets ==
    ExpandPackets
    \cup { [data |-> Zeros(ParseAt) \o t \o Zeros(9) \o <<r>> \o Zeros(m),
            end |-> ParseAt + 13 + m] :
              t \in [1..3 -> Octets], r \in 0..2, m \in 0..2 }

InitParse ==
    /\ X \in ParsePackets
    /\ xs = ParseIdle
    /\ xp = XpIdle
    /\ P = PIdle /\ log = <<>> /\ last = LastIdle
    /\ rc = RcIdle /\ srch = SrchIdle
    /\ conf = ConfIdle /\ ref = RefIdle /\ hints = HintsIdle

ParseReturn(src, r) ==
    xs' = [op |-> "parse", src |-> src, error |-> r.error, rr |-> r.rr]

\* dns_rr_parse(&rr, src, X)
RRParse(src) ==
    /\ xs = ParseIdle
    /\ ParseReturn(src, dns_rr_parse(src, X))
    /\ UNCHANGED <<X, xp, pvars, svars, cvars, rvars, hvars>>

NextParse == \E src \in 0..(X.end + 1) : RRParse(src)

SpecParse == InitParse /\ [][NextParse]_vars

\* the offset behind the owner name at the offset parsed, by dns_d_skip
NameEnd == dns_d_skip(xs.src, X)

\* C30: dns_rr_parse returns 0 only when the owner name as dns_d_skip delimits
\* it, the type and class and, for a record not at offset 12, the TTL, the
\* rdlength field and rdlength octets of rdata all lie within the packet; and
\* it returns an error whenever dns_d_skip returns the end of the packet.
C30_ParseWithinPacket ==
    xs.op = "parse" =>
        /\ xs.error = 0 =>
              /\ xs.src < X.end
              /\ xs.rr.dn = [p |-> xs.src, len |-> NameEnd - xs.src]
              /\ NameEnd + 4 <= X.end
              /\ xs.src # 12 =>
                    /\ NameEnd + 10 <= X.end
                    /\ xs.rr.rd.p = NameEnd + 10
                    /\ xs.rr.rd.len = Byte(X.data, NameEnd + 8) * 256 + Byte(X.data, NameEnd + 9)
                    /\ xs.rr.rd.p + xs.rr.rd.len <= X.end
        /\ NameEnd = X.end => xs.error # 0

\* a record with a name of one label whose rdata is the last octet of the
\* packet
C30_Witness ==
    /\ xs.op = "parse" /\ xs.error = 0 /\ xs.src = ParseAt
    /\ xs.rr.dn.len = 3 /\ xs.rr.rd.len = 1 /\ xs.rr.rd.p + 1 = X.end

\* ---------------------------------------------------------------------------
\* dns_resconf_search on the configuration dns_resconf_open returns

\* the names gethostname gives: "", "h", "ns", "h.a", "h.a.b" and "h."
HostNames ==
    { <<>>, <<104>>, <<110, 115>>, <<104, 46, 97>>, <<104, 46, 97, 46, 98>>, <<104, 46>> }

InitOpen ==
    /\ \E host \in HostNames, qname \in QNames :
          rc = [qname |-> qname, ndots |-> dns_resconf_open(host).options.ndots,
                search |-> dns_resconf_open(host).search, host |-> host]
    /\ srch = SrchIdle
    /\ conf = ConfIdle /\ ref = RefIdle /\ hints = HintsIdle
    /\ P = PIdle /\ log = <<>> /\ last = LastIdle
    /\ X = XIdle /\ xp = XpIdle /\ xs = XsIdle

SpecOpen == InitOpen /\ [][NextSearch]_vars

\* C31: when the host name has no '.', the configuration returned by
\* dns_resconf_open has the empty string in search[0], and every candidate
\* dns_resconf_search emits is the anchored query name alone.
C31_NoDotNoSearch ==
    DotCount(rc.host) = 0 =>
        /\ rc.search[1] = <<>>
        /\ \A k \in DOMAIN srch.out : srch.out[k] \in {<<>>, dns_d_anchor(rc.qname)}

\* ---------------------------------------------------------------------------
\* The compression dictionary behind a failed push

\* C32: when dns_p_push returns an error, every entry of the compression
\* dictionary is what it was before the call, and no entry is an offset at
\* or beyond the restored end.
C32_FailedPushKeepsDict ==
    (last.calls > 0 /\ last.error # 0) =>
        /\ P.dict = last.pre.dict
        /\ \A k \in DOMAIN P.dict : P.dict[k] < P.end

\* ---------------------------------------------------------------------------
\* The rdlength field of a pushed record

\* the offset of the rdlength field of the record pushed last: behind the
\* owner name as dns_d_push wrote it, the type, the class and the TTL
RdLengthAt == dns_d_push(last.pre, last.req.dn).P.end + 8

\* C33: after a successful dns_p_push of a record that is no question, the
\* rdlength field of the record is the number of octets between the end of
\* that field and the new end of the packet.
C33_RdLengthCountsRdata ==
    (Pushed /\ last.req.section # DNS_S_QD) =>
        Byte(P.data, RdLengthAt) * 256 + Byte(P.data, RdLengthAt + 1)
            = P.end - (RdLengthAt + 2)

\* ---------------------------------------------------------------------------
\* dns_d_skip over a name dns_d_push wrote

\* the owner name of the request served last, pushed on the packet as it was
\* before the call
OwnerPush == dns_d_push(last.pre, last.req.dn)

\* C34: for every name dns_d_push accepts, dns_d_skip started at the offset
\* where the name was written returns the packet end dns_d_push reached.
C34_SkipEndsWherePushEnded ==
    (last.calls > 0 /\ OwnerPush.error = 0) =>
        dns_d_skip(last.pre.end, OwnerPush.P) = OwnerPush.P.end

\* ---------------------------------------------------------------------------
\* The compression pointers of a packet built by pushes

\* the offset of the pointer that ends the name at src, 0 when the name ends
\* with the root label or is cut off
RECURSIVE PointerOf(_, _, _)
PointerOf(src, Pk, fuel) ==
    IF fuel = 0 \/ src >= Pk.end THEN 0
    ELSE IF Top2(Byte(Pk.data, src)) = 3 THEN src
    ELSE IF Top2(Byte(Pk.data, src)) # 0 \/ Low6(Byte(Pk.data, src)) = 0 THEN 0
    ELSE PointerOf(src + 1 + Low6(Byte(Pk.data, src)), Pk, fuel - 1)

PointerTarget(p, Pk) == Low6(Byte(Pk.data, p)) * 256 + Byte(Pk.data, p + 1)

\* the offsets of the names the push served last wrote: the owner name and
\* the host name in the rdata of an MX, NS or CNAME record
LastNames ==
    {last.pre.end} \cup
    (IF last.req.section = DNS_S_QD THEN {}
     ELSE IF last.req.type = DNS_T_MX THEN {RdLengthAt + 4}
     ELSE IF last.req.type \in {DNS_T_NS, DNS_T_CNAME} THEN {RdLengthAt + 2}
     ELSE {})

\* the same calls on names with labels of 63, 64 and 65 octets, which
\* dns_d_comp writes behind a length octet of six bits
LabelRooms == {80, 200}

LongLabel(n) == [i \in 1..n |-> 97]

LabelNames ==
    { LongLabel(63), LongLabel(64), LongLabel(65), LongLabel(65) \o <<46, 98>>, <<98>> }

LabelRequests ==
    { Req(DNS_S_QD, dn, DNS_T_A, NoTtl, NoAny) : dn \in LabelNames }
    \cup
    { Req(DNS_S_AN, <<98>>, DNS_T_NS, [hi |-> 0, lo |-> 5],
          [NoAny EXCEPT !.host = LongLabel(65)]) }

InitLabel ==
    /\ PacketInit({ PacketDataOffset + 12 + room : room \in LabelRooms })
    /\ X = XIdle /\ xp = XpIdle /\ xs = XsIdle
    /\ rc = RcIdle /\ srch = SrchIdle
    /\ conf = ConfIdle /\ ref = RefIdle /\ hints = HintsIdle

NextLabel == \E req \in LabelRequests : PPush(req)

SpecLabel == InitLabel /\ [][NextLabel]_vars

\* C35: in a packet built by dns_p_init and dns_p_push calls alone, every
\* compression pointer targets an offset of at least 12 and below the
\* pointer's own offset, and expanding a pushed name does not fail.
C35_PointersGoBack ==
    Pushed =>
        \A o \in LastNames :
            /\ LET p == PointerOf(o, P, DNS_D_MAXNAME) IN
                   p # 0 => (PointerTarget(p, P) >= 12 /\ PointerTarget(p, P) < p)
            /\ dns_d_expand(DNS_D_MAXNAME + 1, o, P).error = 0

C35_Witness ==
    /\ Pushed
    /\ \E o \in LastNames : PointerOf(o, P, DNS_D_MAXNAME) # 0

\* ---------------------------------------------------------------------------
\* dns_hints_update called by several threads on one zone.  dns_atomic_inc
\* is a plain load followed by a plain store, dns_atomic_load and
\* dns_atomic_store are a plain load and a plain store: each is one step.

\* the number of dns_hints_update calls entered
MaxEnters == 2

\* a thread outside dns_hints_update
ThreadIdle == [pc |-> "idle", i |-> 0, sa |-> 0, nice |-> 0, reg |-> 0]

\* the root zone with the addresses 11 and 12: as inserted, with address 11
\* marked as failed at time 1, and with address 12 marked as failed at time 1
\* and its deadline passed
RaceZones ==
    { [soa |-> Filled(2).heap[1], now |-> 1],
      [soa |-> dns_hints_update(Filled(2), ZRoot, 11, -1, 1).heap[1], now |-> 1],
      [soa |-> dns_hints_update(Filled(2), ZRoot, 12, -1, 1).heap[1], now |-> 1 + LossCap] }

\* hints: the node of the zone, the clock, the threads (the statement each is
\* at, its loop index, its arguments and the value it loaded last) and the
\* number of calls entered
InitRace ==
    /\ \E z \in RaceZones :
          hints = [soa |-> z.soa, now |-> z.now,
                   th |-> [t \in 1..NThreads |-> ThreadIdle], enters |-> 0]
    /\ conf = ConfIdle /\ ref = RefIdle
    /\ rc = RcIdle /\ srch = SrchIdle
    /\ P = PIdle /\ log = <<>> /\ last = LastIdle
    /\ X = XIdle /\ xp = XpIdle /\ xs = XsIdle

RaceSlot(t) == hints.soa.addrs[hints.th[t].i + 1]

\* thread t goes on with the statement pc
RaceGoto(t, pc) == hints' = [hints EXCEPT !.th[t].pc = pc]

\* thread t has loaded v and goes on with pc
RaceLoaded(t, v, pc) == hints' = [hints EXCEPT !.th[t].pc = pc, !.th[t].reg = v]

\* thread t has stored the slot s and goes on with pc
RaceStored(t, s, pc) ==
    hints' = [hints EXCEPT !.soa.addrs[hints.th[t].i + 1] = s, !.th[t].pc = pc]

\* the end of the loop body: i++
RaceNext(t, s) ==
    hints' = [hints EXCEPT !.soa.addrs[hints.th[t].i + 1] = s,
                           !.th[t].pc = "for", !.th[t].i = @ + 1]

\* thread t calls dns_hints_update(H, ".", sa, nice): the zone is fetched
UEnter(t, sa, nice) ==
    /\ hints.th[t].pc = "idle"
    /\ hints.enters < MaxEnters
    /\ hints' = [hints EXCEPT !.th[t] = [ThreadIdle EXCEPT !.pc = "for", !.sa = sa,
                                                           !.nice = nice],
                              !.enters = @ + 1]
    /\ UNCHANGED <<pvars, xvars, svars, cvars, rvars>>

\* for (i = 0; i < soa->count; i++) and the comparison of the address
UFor(t) ==
    /\ hints.th[t].pc = "for"
    /\ IF hints.th[t].i >= hints.soa.count THEN hints' = [hints EXCEPT !.th[t] = ThreadIdle]
       ELSE IF RaceSlot(t).ss # hints.th[t].sa THEN RaceGoto(t, "ttl")
       ELSE IF hints.th[t].nice < 0 THEN RaceGoto(t, "inc")
       ELSE IF hints.th[t].nice > 0 THEN RaceGoto(t, "reset")
       ELSE RaceNext(t, RaceSlot(t))
    /\ UNCHANGED <<pvars, xvars, svars, cvars, rvars>>

\* dns_atomic_inc(&soa->addrs[i].nlost): the load of (*i)++
UIncLoad(t) ==
    /\ hints.th[t].pc = "inc"
    /\ RaceLoaded(t, RaceSlot(t).nlost, "inc_store")
    /\ UNCHANGED <<pvars, xvars, svars, cvars, rvars>>

\* the store of (*i)++; nlost = 1 + the value returned stays in reg
UIncStore(t) ==
    /\ hints.th[t].pc = "inc_store"
    /\ hints' = [hints EXCEPT
            !.soa.addrs[hints.th[t].i + 1].nlost = dns_atomic_inc(hints.th[t].reg).val,
            !.th[t].reg = 1 + dns_atomic_inc(hints.th[t].reg).ret,
            !.th[t].pc = "disable"]
    /\ UNCHANGED <<pvars, xvars, svars, cvars, rvars>>

\* dns_atomic_store(&soa->addrs[i].pri.effective, 0)
UDisable(t) ==
    /\ hints.th[t].pc = "disable"
    /\ RaceStored(t, [RaceSlot(t) EXCEPT !.effective = 0], "deadline")
    /\ UNCHANGED <<pvars, xvars, svars, cvars, rvars>>

\* dns_atomic_store(&soa->addrs[i].pri.ttl, now + MIN(60, 3 * nlost))
UDeadline(t) ==
    /\ hints.th[t].pc = "deadline"
    /\ RaceNext(t, [RaceSlot(t) EXCEPT
                        !.ttl = hints.now + Min(LossCap, LossStep * hints.th[t].reg)])
    /\ UNCHANGED <<pvars, xvars, svars, cvars, rvars>>

\* ttl = dns_atomic_load(&soa->addrs[i].pri.ttl); if (ttl > 0 && ttl < now)
UTtlLoad(t) ==
    /\ hints.th[t].pc = "ttl"
    /\ IF DeadlinePast(RaceSlot(t).ttl, hints.now) THEN RaceGoto(t, "reset")
       ELSE RaceNext(t, RaceSlot(t))
    /\ UNCHANGED <<pvars, xvars, svars, cvars, rvars>>

\* reset: dns_atomic_load(&soa->addrs[i].pri.saved)
USavedLoad(t) ==
    /\ hints.th[t].pc = "reset"
    /\ RaceLoaded(t, RaceSlot(t).saved, "enable")
    /\ UNCHANGED <<pvars, xvars, svars, cvars, rvars>>

\* dns_atomic_store(&soa->addrs[i].pri.effective, the value loaded)
UEnable(t) ==
    /\ hints.th[t].pc = "enable"
    /\ RaceStored(t, [RaceSlot(t) EXCEPT !.effective = hints.th[t].reg], "ttl_clear")
    /\ UNCHANGED <<pvars, xvars, svars, cvars, rvars>>

\* dns_atomic_store(&soa->addrs[i].pri.ttl, 0)
UTtlClear(t) ==
    /\ hints.th[t].pc = "ttl_clear"
    /\ RaceStored(t, [RaceSlot(t) EXCEPT !.ttl = 0], "nlost_clear")
    /\ UNCHANGED <<pvars, xvars, svars, cvars, rvars>>

\* dns_atomic_store(&soa->addrs[i].nlost, 0)
UNlostClear(t) ==
    /\ hints.th[t].pc = "nlost_clear"
    /\ RaceNext(t, [RaceSlot(t) EXCEPT !.nlost = 0])
    /\ UNCHANGED <<pvars, xvars, svars, cvars, rvars>>

NextRace ==
    \E t \in 1..NThreads :
        \/ \E sa \in {11, 12}, nice \in {-1, 0, 1} : UEnter(t, sa, nice)
        \/ UFor(t)
        \/ UIncLoad(t)
        \/ UIncStore(t)
        \/ UDisable(t)
        \/ UDeadline(t)
        \/ UTtlLoad(t)
        \/ USavedLoad(t)
        \/ UEnable(t)
        \/ UTtlClear(t)
        \/ UNlostClear(t)

SpecRace == InitRace /\ [][NextRace]_vars

AllReturned == \A t \in 1..NThreads : hints.th[t].pc = "idle"

NextRefill ==
    \/ \E a \in FillInputs : FInsert(a)
    \/ \E sa \in {11, 12}, nice \in {-1, 1} : HUpdate(ZRoot, sa, nice)

SpecRefill == InitFill /\ [][NextRefill]_vars

\* the slot the last insert wrote
InsertedSlot == InsertedAfter.addrs[(InsertedBefore.count % SlotsMax) + 1]

InSectionOrder ==
    \A i, j \in 1..Len(log) : i < j => log[i].section <= log[j].section

Reported == dns_rr_grep(<<>>, GrepAll, RRIStart, NoFilter, P).rrs

\* C38: in a packet built by pushes in section order, with any number of
\* questions, each record dns_rr_grep reports with the section QD was parsed
\* without TTL and rdata, and each record reported with the section AN, NS or
\* AR was parsed with TTL, rdlength and rdata.
C38_SectionDecidesParse ==
    (Pushed /\ InSectionOrder) =>
        \A k \in 1..Len(Reported) :
            IF Reported[k].section = DNS_S_QD
            THEN Reported[k].rd.p = 0 /\ Reported[k].rd.len = 0
            ELSE Reported[k].rd.p = Reported[k].dn.p + Reported[k].dn.len + 10

====
